---- MODULE Spec2Model ----
(***************************************************************************)
(* DioDashboard: the stream -> cache -> notify pipeline.                   *)
(*                                                                         *)
(* JSON values are records tagged by t ("null", "undefined", "num",        *)
(* "obj", "array"); a message is the record JSON.parse would build from    *)
(* its text, or a record with json = FALSE when the text does not parse.   *)
(* A JavaScript Set is a duplicate-free sequence in insertion order, a     *)
(* plain object used as a map is a function whose DOMAIN is its key set.   *)
(***************************************************************************)
EXTENDS Integers, Sequences, FiniteSets, TLC

VARIABLES
  telemetryData,    \* key -> entry                      (state.js)
  balanceData,      \* asset -> entry                    (state.js)
  openOrdersData,   \* sequence of orders                (state.js)
  systemData,       \* metric name -> entry              (state.js)
  keyOrder,         \* cache -> its keys in the order Object.values / Object.entries give them
  widgetSubscribers,\* stream -> Set of callbacks        (websocket.js)
  connections,      \* stream -> state of its WebSocket  (websocket.js)
  handler,          \* the ws.onmessage call in progress, if any
  lastKnown,        \* history: stream -> (key -> value of the most recent message carrying the key)
  subscribed,       \* history: stream -> callbacks in the order their subscriptions were made
  troubled,         \* history: stream -> the last message handled on it failed or a callback threw
  inFlight,         \* history: messages whose handling has begun and not returned
  timers,           \* stream -> seconds left of each pending setTimeout(connectStream)
  reconnects,       \* history: stream -> what led to its reconnections and how long they waited
  canvas,           \* Canvas: scale, isZooming, lastTouchDistance, baseWidth, baseHeight
  container,        \* the element holding the canvas: offsetWidth, offsetHeight (the viewport)
  widgets,          \* Canvas.widgets: id -> position, size and style.left / style.top
  dragDrop,         \* DragDropManager: draggedWidget, dragOffset, isDragging
  touches,          \* the touch points on the screen
  storage,          \* StorageManager.config.widgets: the saved configs in order; removals under way
  layout,           \* a calculateLayout call: its arguments, its locals, its positions
  probe,            \* a call of snapToGrid or getGridPosition and its result
  menu,             \* ContextMenu: currentWidget, isVisible; its import().then callbacks to run
  creations,        \* the async loops that create widgets: configs left, where each loop waits
  instances,        \* the widget objects of Canvas.widgets: id -> type, target, content, log lines
  intervals,        \* the widgets whose setInterval timer is live
  destroyed,        \* history: id and type of the widgets destroyed, until the id is mounted again
  errors            \* history: the types of the widgets whose creation threw (console.error)

cacheVars == <<telemetryData, balanceData, openOrdersData, systemData, keyOrder>>
vars == <<telemetryData, balanceData, openOrdersData, systemData, keyOrder,
          widgetSubscribers, connections, handler,
          lastKnown, subscribed, troubled, inFlight, timers, reconnects,
          canvas, container, widgets, dragDrop, touches, storage, layout, probe,
          menu, creations, instances, intervals, destroyed, errors>>
widgetVars == <<instances, intervals, destroyed, errors>>
feedVars == <<telemetryData, balanceData, openOrdersData, systemData, keyOrder,
              connections, handler, lastKnown, troubled, inFlight, timers, reconnects>>
connVars == <<timers, reconnects>>
canvasVars == <<canvas, container, widgets, dragDrop, touches, storage, layout, probe,
               menu, creations>>
dataVars == <<telemetryData, balanceData, openOrdersData, systemData, keyOrder,
              widgetSubscribers, connections, handler,
              lastKnown, subscribed, troubled, inFlight, timers, reconnects>>

(***************************************************************************)
(* Bounds of the model.                                                    *)
(***************************************************************************)
MaxValue  == 2    \* metric and balance values range over 1..MaxValue
MaxItems  == 2    \* longest metrics / balances array of a message
MaxOrders == 2    \* longest open_orders array of a message
NumCallbacks == 2 \* callbacks (widgets) that subscribe to the streams

(***************************************************************************)
(* JSON values.                                                            *)
(***************************************************************************)
JNull  == [t |-> "null"]
JUndef == [t |-> "undefined"]
JNum(n) == [t |-> "num", n |-> n]
JArray(s) == [t |-> "array", items |-> s]

\* A message text JSON.parse rejects.
Garbage == [json |-> FALSE]

\* JavaScript truthiness of a JSON value: null, undefined, 0, "" and false
\* are falsy.
Truthy(v) ==
  /\ ~(v.t \in {"null", "undefined"})
  /\ ~(v.t = "num" /\ v.n = 0)
  /\ ~(v.t = "str" /\ v.s = "")
  /\ ~(v.t = "bool" /\ ~v.b)

IsArray(v) == v.t = "array"

\* All sequences over S of length 0..n.
SeqUpTo(S, n) == UNION {[1..k -> S] : k \in 0..n}

EmptyMap == [k \in {} |-> JNull]

\* obj[key] = value on a plain object.
Put(obj, key, value) ==
  [k \in DOMAIN obj \cup {key} |-> IF k = key THEN value ELSE obj[k]]

(***************************************************************************)
(* Exact fractions <<n, d>>, d > 0, in lowest terms: scales and the canvas *)
(* coordinates they divide.                                                *)
(***************************************************************************)
Abs(n) == IF n < 0 THEN -n ELSE n

RECURSIVE Gcd(_, _)
Gcd(a, b) == IF b = 0 THEN a ELSE Gcd(b, a % b)

Rat(n, d) == LET g == Gcd(Abs(n), d) IN <<n \div g, d \div g>>

RInt(n) == <<n, 1>>
RMul(a, b) == Rat(a[1] * b[1], a[2] * b[2])
RDiv(a, b) == Rat(a[1] * b[2], a[2] * b[1])
RSub(a, b) == Rat(a[1] * b[2] - b[1] * a[2], a[2] * b[2])
RAdd(a, b) == Rat(a[1] * b[2] + b[1] * a[2], a[2] * b[2])
RLess(a, b) == a[1] * b[2] < b[1] * a[2]
RLeq(a, b) == a[1] * b[2] <= b[1] * a[2]

\* Math.min, Math.max
RMin(a, b) == IF RLess(b, a) THEN b ELSE a
RMax(a, b) == IF RLess(a, b) THEN b ELSE a
Max(a, b) == IF a < b THEN b ELSE a

\* Math.round: the nearest integer, a half going up.
Round(a) == (2 * a[1] + a[2]) \div (2 * a[2])

(***************************************************************************)
(* The canvas as its constructors leave it.                                *)
(***************************************************************************)
GRID_SIZE == 20

minScale == <<1, 4>>
maxScale == <<2, 1>>

NoWidgets == [id \in {} |-> 0]

\* new DragDropManager(canvas): nothing dragged, the flag down; besides, the
\* setTimeout callbacks of endDrag that are pending, the groups of four
\* listeners startDrag has put on document and are still there, and the
\* endDrag calls that went past their first line since the last startDrag.
NewDragDropManager ==
  [draggedWidget |-> "none", held |-> "none", registered |-> FALSE,
   dragOffset |-> <<RInt(0), RInt(0)>>, isDragging |-> FALSE,
   justFinishedDrag |-> FALSE, flagTimers |-> 0, listeners |-> 0, ended |-> 0]

\* new Canvas(container): scale 1, base dimensions those of the element,
\* which fills its container; new DragDropManager(canvas); empty storage.
\* ContextMenu as its constructor leaves it; duplicating holds, for each
\* import().then callback of duplicateWidget still to run, the widget the
\* choice was made on (history), failed what the callbacks threw or logged.
NewContextMenu ==
  [currentWidget |-> "none", isVisible |-> FALSE, duplicating |-> <<>>, failed |-> {}]

\* No async loop is creating widgets.
NoCreations == <<>>

\* A config on its way through an async loop; stale (history) once the
\* user cleared the dashboard after the request.
Request(id, type, p) ==
  [cfg |-> [id |-> id, type |-> type, key |-> "none", place |-> p], stale |-> FALSE]

\* loadSavedConfiguration up to its first await: the loop over
\* storageManager.config.widgets, if there are any.
LoadSavedConfiguration(saved) ==
  IF Len(saved) > 0
    THEN <<[configs |-> [i \in 1..Len(saved) |->
                           Request(saved[i].id, "system-cpu", <<saved[i].x, saved[i].y, 4, 3>>)],
            skipStorage |-> TRUE, pc |-> "import"]>>
    ELSE NoCreations

\* The page once DOMContentLoaded has run with the saved configs in the
\* storage.
PageLoaded(width, height, saved) ==
  /\ container = [left |-> 0, top |-> 0, offsetWidth |-> width, offsetHeight |-> height]
  /\ canvas = [scale |-> RInt(1), isZooming |-> FALSE, lastTouchDistance |-> 0,
               baseWidth |-> width, baseHeight |-> height, selected |-> "none"]
  /\ widgets = NoWidgets
  /\ instances = NoWidgets
  /\ intervals = {}
  /\ destroyed = {}
  /\ errors = {}
  /\ dragDrop = NewDragDropManager
  /\ touches = <<>>
  /\ storage = [widgets |-> saved, removing |-> {}]
  /\ layout = [pc |-> "none"]
  /\ probe = [op |-> "none"]
  /\ menu = NewContextMenu
  /\ creations = LoadSavedConfiguration(saved)

CanvasConstructed(width, height) ==
  /\ container = [left |-> 0, top |-> 0, offsetWidth |-> width, offsetHeight |-> height]
  /\ canvas = [scale |-> RInt(1), isZooming |-> FALSE, lastTouchDistance |-> 0,
               baseWidth |-> width, baseHeight |-> height, selected |-> "none"]
  /\ widgets = NoWidgets
  /\ instances = NoWidgets
  /\ intervals = {}
  /\ destroyed = {}
  /\ errors = {}
  /\ dragDrop = NewDragDropManager
  /\ touches = <<>>
  /\ storage = [widgets |-> <<>>, removing |-> {}]
  /\ layout = [pc |-> "none"]
  /\ probe = [op |-> "none"]
  /\ menu = NewContextMenu
  /\ creations = NoCreations

(***************************************************************************)
(* Telemetry: parseTelemetryMessage.                                       *)
(***************************************************************************)
\* The metrics the telemetry stream reports: a name and its labels.
TMetrics == {<<"cpu_temp", "omitted">>, <<"cpu_temp", "core0">>, <<"mem_used", "omitted">>}

\* JSON.stringify(labels), labels defaulting to {} when the item has none.
StringifyLabels(labels) ==
  IF labels = "omitted" THEN "{}" ELSE "{\"core\":\"0\"}"

\* getMetricType(metric_type, name) for items that carry no unit hint:
\* the name patterns decide ("mem", "used" -> memory).
GetMetricType(name) ==
  IF name = "mem_used" THEN "memory" ELSE "number"

TItem(metric, type, v) ==
  [t |-> "obj", name |-> metric[1], labels |-> metric[2], type |-> type, value |-> JNum(v)]

\* The items of a metrics array: gauges, an item of an unsupported type, null.
TItems ==
  {TItem(m, "gauge", v) : m \in TMetrics, v \in 1..MaxValue}
  \cup {TItem(<<"cpu_temp", "omitted">>, "summary", 1), JNull}

TelemetryMsgs ==
  {Garbage}
  \cup {[json |-> TRUE, form |-> "other"]}
  \cup {[json |-> TRUE, form |-> f, metrics |-> s] :
          f \in {"array", "wrapper"}, s \in SeqUpTo(TItems, MaxItems)}

TelemetryKey(item) == item.name \o "|" \o StringifyLabels(item.labels)

ProcessedValue(item) ==
  LET v == IF item.value.t = "undefined" THEN JNull ELSE item.value
  IN  IF v.t = "num" /\ GetMetricType(item.name) = "memory"
        THEN JNum(v.n * 1024)
        ELSE v

\* metric_type.data of a histogram the sender did not serialize.
NotSerialized == "histogram_data_not_serialized"

\* A histogram item: metric_type holds type and data and, when the sender
\* computed one, a value.
HItem(metric, data, value) ==
  [t |-> "obj", name |-> metric[1], labels |-> metric[2], type |-> "histogram",
   data |-> data, value |-> value]

\* The body of metrics.forEach for one item.  The test for the marker of a
\* histogram sits in the branch of the types that are not gauge, counter or
\* histogram, and both its arms return.
StoreMetric(data, item) ==
  IF item.t # "obj" THEN data
  ELSE IF item.type \notin {"gauge", "counter", "histogram"}
    THEN (IF item.type = "histogram" /\ item.data = NotSerialized THEN data ELSE data)
  ELSE Put(data, TelemetryKey(item),
           [name |-> item.name,
            labels |-> StringifyLabels(item.labels),
            value |-> ProcessedValue(item),
            type |-> item.type,
            key |-> TelemetryKey(item)])

RECURSIVE StoreMetrics(_, _)
StoreMetrics(data, items) ==
  IF items = <<>> THEN data
  ELSE StoreMetrics(StoreMetric(data, Head(items)), Tail(items))

\* A parser that rebuilds the cache from each message instead of merging.
ParseTelemetryReplacing(data, msg) ==
  IF ~msg.json THEN data
  ELSE IF msg.form = "other" THEN data
  ELSE StoreMetrics(EmptyMap, msg.metrics)

ParseTelemetryMessage(data, msg) ==
  IF ~msg.json THEN data                       \* JSON.parse throws: catch
  ELSE IF msg.form = "other" THEN data         \* format not recognized
  ELSE IF Len(msg.metrics) = 0 THEN data       \* empty metrics array
  ELSE StoreMetrics(data, msg.metrics)

(***************************************************************************)
(* Balance: parseBalanceMessage.                                           *)
(***************************************************************************)
Assets == {"BTC", "ETH"}

BItems ==
  {[t |-> "obj", asset |-> a, total_balance |-> v] : a \in Assets, v \in 1..MaxValue}
  \cup {JNull}

Order(sym, side) == [t |-> "obj", symbol |-> sym, side |-> side]

\* What an element of open_orders may be: an order object or null.
OrderElems == {Order("BTCUSD", "buy"), Order("ETHUSD", "sell"), JNull}

\* balances / open_orders of a message: absent, not an array, or an array.
BalancesFields ==
  {JUndef, JNum(1)} \cup {JArray(s) : s \in SeqUpTo(BItems, MaxItems)}
OpenOrdersFields ==
  {JUndef, JNull} \cup {JArray(s) : s \in SeqUpTo(OrderElems, MaxOrders)}

\* Fields with at most one element.
Short(fields) == {f \in fields : IsArray(f) => Len(f.items) <= 1}

\* A message varies its balances or its open_orders to the full length.
BalanceMsgs ==
  {Garbage}
  \cup {[json |-> TRUE, form |-> "nonobject"]}
  \cup {[json |-> TRUE, form |-> "object", balances |-> b, open_orders |-> o] :
          b \in BalancesFields, o \in Short(OpenOrdersFields)}
  \cup {[json |-> TRUE, form |-> "object", balances |-> b, open_orders |-> o] :
          b \in Short(BalancesFields), o \in OpenOrdersFields}

\* const { balances = [], open_orders = [] } = data
DefaultArray(field) == IF field.t = "undefined" THEN JArray(<<>>) ELSE field

\* { ...order }: a shallow copy, equal to the order field by field.
Spread(order) == order

\* openOrdersData.length = 0; open_orders.forEach(order => { if (order) push })
RECURSIVE PushOrders(_, _)
PushOrders(list, elems) ==
  IF elems = <<>> THEN list
  ELSE PushOrders(IF Truthy(Head(elems)) THEN Append(list, Spread(Head(elems))) ELSE list,
                  Tail(elems))

RebuildOrders(openOrders) == PushOrders(<<>>, openOrders.items)

\* The body of balances.forEach for one balance.
StoreBalance(data, balance) ==
  IF ~Truthy(balance) THEN data
  ELSE Put(data, balance.asset,
           [asset |-> balance.asset, total_balance |-> balance.total_balance])

RECURSIVE StoreBalances(_, _)
StoreBalances(data, items) ==
  IF items = <<>> THEN data
  ELSE StoreBalances(StoreBalance(data, Head(items)), Tail(items))

\* A parser that forgets to clear the order list before refilling it.
ParseBalanceAppending(data, orders, msg) ==
  IF ~msg.json THEN [balances |-> data, orders |-> orders]
  ELSE IF msg.form = "nonobject" THEN [balances |-> data, orders |-> orders]
  ELSE LET b == DefaultArray(msg.balances)
           o == DefaultArray(msg.open_orders)
       IN  IF ~IsArray(o) THEN [balances |-> data, orders |-> orders]
           ELSE IF ~IsArray(b) THEN [balances |-> data, orders |-> PushOrders(orders, o.items)]
           ELSE [balances |-> StoreBalances(data, b.items),
                 orders |-> PushOrders(orders, o.items)]

\* A parser that clears the order list before it decodes the text.
ParseBalanceClearingFirst(data, orders, msg) ==
  IF ~msg.json THEN [balances |-> data, orders |-> <<>>]
  ELSE IF msg.form = "nonobject" THEN [balances |-> data, orders |-> <<>>]
  ELSE LET b == DefaultArray(msg.balances)
           o == DefaultArray(msg.open_orders)
       IN  IF ~IsArray(o) THEN [balances |-> data, orders |-> <<>>]
           ELSE IF ~IsArray(b) THEN [balances |-> data, orders |-> RebuildOrders(o)]
           ELSE [balances |-> StoreBalances(data, b.items), orders |-> RebuildOrders(o)]

\* The pair (balanceData, openOrdersData) after parseBalanceMessage(msg).
\* forEach on a value that is not an array throws; the catch keeps what the
\* statements before the throw did.
ParseBalanceMessage(data, orders, msg) ==
  IF ~msg.json THEN [balances |-> data, orders |-> orders]
  ELSE IF msg.form = "nonobject" THEN [balances |-> data, orders |-> orders]
  ELSE LET b == DefaultArray(msg.balances)
           o == DefaultArray(msg.open_orders)
       IN  IF ~IsArray(o) THEN [balances |-> data, orders |-> <<>>]
           ELSE IF ~IsArray(b) THEN [balances |-> data, orders |-> RebuildOrders(o)]
           ELSE [balances |-> StoreBalances(data, b.items), orders |-> RebuildOrders(o)]

(***************************************************************************)
(* System: parseSystemMessage.                                             *)
(***************************************************************************)
JStr(s) == [t |-> "str", s |-> s]
JObj == [t |-> "obj"]

\* The values a field of a system message may hold.
SysFieldValues(k) ==
  CASE k = "cpu_usage"   -> {JNum(v) : v \in 1..MaxValue}
    [] k = "core_usages" -> {JArray(<<JNum(1), JNum(2)>>)}
    [] k = "disk"        -> {JObj}
    [] k = "type"        -> {JStr("system")}

SysFields == {"cpu_usage", "core_usages", "disk", "type"}

SysObjects ==
  UNION {{f \in [ks -> UNION {SysFieldValues(k) : k \in ks}] :
            \A k \in ks : f[k] \in SysFieldValues(k)} : ks \in SUBSET SysFields}

\* A system message that is a JSON array: Object.entries gives its indices.
SysArrays == {[k \in {"0"} |-> JNum(v)] : v \in 1..MaxValue}

SystemMsgs ==
  {Garbage}
  \cup {[json |-> TRUE, form |-> "nonobject"]}
  \cup {[json |-> TRUE, form |-> "object", fields |-> f] : f \in SysObjects}
  \cup {[json |-> TRUE, form |-> "array", fields |-> f] : f \in SysArrays}

\* The fields Object.entries(data).forEach stores: not the reserved keys,
\* not nested objects; arrays and scalars (null too) are stored as they are.
StoredSystemKeys(fields) ==
  {k \in DOMAIN fields :
     /\ k \notin {"type", "timestamp"}
     /\ (IsArray(fields[k]) \/ fields[k].t # "obj")}

ParseSystemMessage(data, msg) ==
  IF ~msg.json THEN data
  ELSE IF msg.form = "nonobject" THEN data
  ELSE LET stored == StoredSystemKeys(msg.fields)
       IN  [k \in DOMAIN data \cup stored |->
              IF k \in stored THEN [name |-> k, value |-> msg.fields[k]] ELSE data[k]]

(***************************************************************************)
(* Last-known-good reference: what a message of each grammar carries.      *)
(* It is read off the message alone and is what lastKnown accumulates.     *)
(***************************************************************************)
Streams == {"balance", "system", "telemetry", "log"}
CachedStreams == {"telemetry", "balance", "system"}

MaxOf(S) == CHOOSE i \in S : \A j \in S : j <= i

ValidMetric(item) == item.t = "obj" /\ item.type \in {"gauge", "counter", "histogram"}

CarriedTelemetry(msg) ==
  IF msg.json /\ msg.form \in {"array", "wrapper"}
    THEN LET idx == {i \in 1..Len(msg.metrics) : ValidMetric(msg.metrics[i])}
             keys == {TelemetryKey(msg.metrics[i]) : i \in idx}
         IN  [k \in keys |->
                ProcessedValue(msg.metrics[MaxOf({i \in idx : TelemetryKey(msg.metrics[i]) = k})])]
    ELSE EmptyMap

WellFormedBalance(msg) ==
  /\ msg.json /\ msg.form = "object"
  /\ IsArray(DefaultArray(msg.balances))
  /\ IsArray(DefaultArray(msg.open_orders))

CarriedBalance(msg) ==
  IF WellFormedBalance(msg)
    THEN LET items == DefaultArray(msg.balances).items
             idx == {i \in 1..Len(items) : items[i].t = "obj"}
             keys == {items[i].asset : i \in idx}
         IN  [k \in keys |-> items[MaxOf({i \in idx : items[i].asset = k})].total_balance]
    ELSE EmptyMap

CarriedSystem(msg) ==
  IF msg.json /\ msg.form = "object"
    THEN LET keys == {k \in DOMAIN msg.fields \ {"type", "timestamp"} :
                        msg.fields[k].t \in {"num", "str", "null", "array"}}
         IN  [k \in keys |-> msg.fields[k]]
    ELSE EmptyMap

Carried(stream, msg) ==
  CASE stream = "telemetry" -> CarriedTelemetry(msg)
    [] stream = "balance"   -> CarriedBalance(msg)
    [] stream = "system"    -> CarriedSystem(msg)
    [] OTHER                -> EmptyMap

\* The keys a message mentions at all, whatever the parser does with them.
MentionedKeys(stream, msg) ==
  IF ~msg.json THEN {}
  ELSE CASE stream = "telemetry" ->
              IF msg.form = "other" THEN {}
              ELSE {TelemetryKey(msg.metrics[i]) :
                      i \in {j \in 1..Len(msg.metrics) : msg.metrics[j].t = "obj"}}
         [] stream = "balance" ->
              IF msg.form = "object" /\ IsArray(msg.balances)
                THEN {msg.balances.items[i].asset :
                        i \in {j \in 1..Len(msg.balances.items) : msg.balances.items[j].t = "obj"}}
                ELSE {}
         [] stream = "system" ->
              IF msg.form = "nonobject" THEN {} ELSE DOMAIN msg.fields
         [] OTHER -> {}

Overlay(known, carried) ==
  [k \in DOMAIN known \cup DOMAIN carried |->
     IF k \in DOMAIN carried THEN carried[k] ELSE known[k]]

\* The cache of a stream and the value field of one of its entries.
CacheOf(stream) ==
  CASE stream = "telemetry" -> telemetryData
    [] stream = "balance"   -> balanceData
    [] stream = "system"    -> systemData
    [] OTHER                -> EmptyMap

ValueOf(stream, entry) ==
  IF stream = "balance" THEN entry.total_balance ELSE entry.value

\* How a parser leaves a message: what the message was to it.
Outcome(stream, msg) ==
  IF stream = "log" THEN (IF msg.json THEN "parsed" ELSE "raw")
  ELSE IF ~msg.json THEN "malformed"
  ELSE IF stream = "telemetry"
    THEN (IF msg.form = "other" THEN "unrecognized"
          ELSE IF Len(msg.metrics) = 0 THEN "empty" ELSE "merged")
  ELSE IF msg.form = "nonobject" THEN "unrecognized"
  ELSE IF stream = "balance" /\ ~WellFormedBalance(msg) THEN "threw"
  ELSE "merged"

(***************************************************************************)
(* ws.onmessage and notifyWidgets.                                         *)
(***************************************************************************)
Idle ==
  [pc |-> "idle", stream |-> "none", outcome |-> "none", before |-> <<>>,
   keys |-> {}, orders |-> JUndef, cursor |-> 0, invoked |-> <<>>,
   thrown |-> 0, raised |-> FALSE, snapshot |-> <<>>, afterTrouble |-> FALSE,
   carried |-> EmptyMap, merged |-> <<>>, data |-> JUndef]

\* Handlers that would interleave.
HandlersInterleave == TRUE

\* JavaScript runs one event handler at a time, to completion.
EventLoopFree == handler.pc = "idle"

\* The three caches after the parser of the stream handled msg.
ParsedCaches(stream, msg) ==
  CASE stream = "telemetry" ->
         <<ParseTelemetryMessage(telemetryData, msg), balanceData, openOrdersData, systemData>>
    [] stream = "balance" ->
         LET r == ParseBalanceMessage(balanceData, openOrdersData, msg)
         IN  <<telemetryData, r.balances, r.orders, systemData>>
    [] stream = "system" ->
         <<telemetryData, balanceData, openOrdersData, ParseSystemMessage(systemData, msg)>>
    [] OTHER -> <<telemetryData, balanceData, openOrdersData, systemData>>

\* The keys a message names, in the order its parser reaches them (the
\* fields of a system message in the order the sender writes them).
SysFieldOrder == <<"cpu_usage", "memory_used", "core_usages", "disk", "type">>
KeysOf(items, field) ==
  [i \in 1..Len(items) |-> IF items[i].t = "obj" THEN items[i][field] ELSE "none"]
NamedInOrder(stream, msg) ==
  IF ~msg.json THEN <<>>
  ELSE CASE stream = "telemetry" ->
              IF msg.form = "other" THEN <<>>
              ELSE [i \in 1..Len(msg.metrics) |->
                      IF StoreMetric(EmptyMap, msg.metrics[i]) # EmptyMap
                        THEN TelemetryKey(msg.metrics[i]) ELSE "none"]
         [] stream = "balance" ->
              IF WellFormedBalance(msg) THEN KeysOf(DefaultArray(msg.balances).items, "asset")
              ELSE <<>>
         [] stream = "system" ->
              IF msg.form = "nonobject" THEN <<>>
              ELSE IF msg.form = "array" THEN <<"0">>
              ELSE SysFieldOrder
         [] OTHER -> <<>>

\* An object lists its integer-like keys first, then its other keys in the
\* order they were first assigned.
IntegerLike(key) == key = "0"
RECURSIVE OwnKeys(_, _, _)
OwnKeys(order, named, stored) ==
  IF named = <<>> THEN order
  ELSE LET k == Head(named)
           has == \E i \in 1..Len(order) : order[i] = k
           next == IF has \/ k \notin stored THEN order
                   ELSE IF IntegerLike(k) THEN <<k>> \o order
                   ELSE Append(order, k)
       IN  OwnKeys(next, Tail(named), stored)

\* The key order of the caches once the parser of the stream has turned
\* them into c while handling msg.
KeyOrderAfter(stream, msg, c) ==
  IF stream \notin CachedStreams THEN keyOrder
  ELSE LET cache == CASE stream = "telemetry" -> c[1]
                      [] stream = "balance"   -> c[2]
                      [] stream = "system"    -> c[4]
       IN  [keyOrder EXCEPT ![stream] = OwnKeys(@, NamedInOrder(stream, msg), DOMAIN cache)]

\* The caches and their key order after the parser of the stream handled msg.
Parsed(stream, msg) ==
  LET c == ParsedCaches(stream, msg) IN c \o <<KeyOrderAfter(stream, msg, c)>>

\* What notifyWidgets hands to the subscribers: of a log message the parsed
\* value, or the text itself when it is not JSON; of the other streams an
\* update object.
Payload(stream, msg) ==
  IF stream = "log"
    THEN (IF msg.json THEN msg.value ELSE [t |-> "str", s |-> msg.text])
    ELSE [t |-> "obj", type |-> "update"]

\* ws.onmessage for a non-empty message: parse it into the cache of its
\* stream (a log message is only decoded), then notifyWidgets starts
\* walking the subscribers of the stream.
OnMessage(stream, msg) ==
  /\ EventLoopFree
  /\ connections[stream] = "open"
  /\ LET c == Parsed(stream, msg)
     IN  /\ telemetryData' = c[1]
         /\ balanceData' = c[2]
         /\ openOrdersData' = c[3]
         /\ systemData' = c[4]
         /\ keyOrder' = c[5]
  /\ lastKnown' = IF stream \in CachedStreams
                    THEN [lastKnown EXCEPT ![stream] = Overlay(@, Carried(stream, msg))]
                    ELSE lastKnown
  /\ handler' = [pc |-> IF widgetSubscribers[stream] = <<>> THEN "done" ELSE "notify",
                 stream |-> stream,
                 outcome |-> Outcome(stream, msg),
                 before |-> cacheVars,
                 keys |-> MentionedKeys(stream, msg),
                 orders |-> IF stream = "balance" /\ msg.json /\ msg.form = "object"
                              THEN msg.open_orders ELSE JUndef,
                 cursor |-> 0, invoked |-> <<>>, thrown |-> 0, raised |-> FALSE,
                 snapshot |-> subscribed[stream],
                 afterTrouble |-> \E s \in Streams : troubled[s],
                 carried |-> Carried(stream, msg),
                 merged |-> <<telemetryData', balanceData', openOrdersData', systemData',
                              keyOrder'>>,
                 data |-> Payload(stream, msg)]
  /\ inFlight' = inFlight + 1
  /\ UNCHANGED <<widgetSubscribers, connections, subscribed, troubled, connVars, canvasVars, widgetVars>>

\* ws.onmessage for an empty or blank text: warn and return.
OnEmptyMessage(stream) ==
  /\ EventLoopFree
  /\ connections[stream] = "open"
  /\ UNCHANGED vars

\* The handler returns to the event loop.
HandlerReturns ==
  /\ handler.pc = "done"
  /\ handler' = Idle
  /\ troubled' = [troubled EXCEPT ![handler.stream] =
                    handler.outcome \in {"malformed", "unrecognized", "threw"} \/ handler.thrown > 0]
  /\ inFlight' = inFlight - 1
  /\ UNCHANGED <<cacheVars, widgetSubscribers, connections, lastKnown, subscribed, connVars, canvasVars, widgetVars>>

(***************************************************************************)
(* The subscriber Sets. A Set keeps its elements in insertion order.       *)
(***************************************************************************)
Callbacks == 1..NumCallbacks

Has(set, cb) == \E i \in 1..Len(set) : set[i] = cb

IndexOf(set, cb) == CHOOSE i \in 1..Len(set) : set[i] = cb

KeepOthers(set, cb) ==
  LET Other(x) == x # cb IN SelectSeq(set, Other)

\* Array.prototype.push and unshift in the place of Set.prototype.add.
ArrayPush(set, cb) == Append(set, cb)
ArrayUnshift(set, cb) == IF Has(set, cb) THEN set ELSE <<cb>> \o set

\* Set.prototype.add
SetAdd(set, cb) == IF Has(set, cb) THEN set ELSE Append(set, cb)

\* Set.prototype.delete
SetDelete(set, cb) == KeepOthers(set, cb)

\* subscribeToStream(streamName, callback), called by a widget being mounted.
SubscribeToStream(stream, cb) ==
  /\ EventLoopFree
  /\ connections[stream] = "open"
  /\ widgetSubscribers' = [widgetSubscribers EXCEPT ![stream] = SetAdd(@, cb)]
  /\ subscribed' = [subscribed EXCEPT ![stream] =
                      IF Has(@, cb) THEN @ ELSE Append(@, cb)]
  /\ UNCHANGED <<cacheVars, connections, handler, lastKnown, troubled, inFlight, connVars, canvasVars, widgetVars>>

\* unsubscribeFromStream(streamName, callback), called by a widget being destroyed.
UnsubscribeFromStream(stream, cb) ==
  /\ EventLoopFree
  /\ widgetSubscribers' = [widgetSubscribers EXCEPT ![stream] = SetDelete(@, cb)]
  /\ subscribed' = [subscribed EXCEPT ![stream] = KeepOthers(@, cb)]
  /\ UNCHANGED <<cacheVars, connections, handler, lastKnown, troubled, inFlight, connVars, canvasVars, widgetVars>>

\* How many of the first i entries of a Set are still entries of it after a
\* callback changed it: Set.prototype.forEach walks the live Set, so an entry
\* deleted behind the walk does not shift the entries ahead of it.
Visited(set, after, i) == Cardinality({j \in 1..i : Has(after, set[j])})

\* A forEach body without the try/catch: a throw ends the walk and leaves
\* notifyWidgets.
AfterCallbackUncaught(h, cb, threw, visited, size) ==
  [h EXCEPT !.invoked = Append(@, cb),
            !.cursor = visited,
            !.thrown = IF threw /\ @ = 0 THEN Len(h.invoked) + 1 ELSE @,
            !.raised = threw,
            !.pc = IF visited < size /\ ~threw THEN "notify" ELSE "done"]

\* The handler record after the forEach body ran callback cb, which returned
\* or threw; `visited` of the `size` entries of the Set are behind the walk.
\* try { callback(data) } catch (error) { console.error(...) }
AfterCallback(h, cb, threw, visited, size) ==
  [h EXCEPT !.invoked = Append(@, cb),
            !.cursor = visited,
            !.thrown = IF threw /\ @ = 0 THEN Len(h.invoked) + 1 ELSE @,
            !.raised = FALSE,
            !.pc = IF visited < size THEN "notify" ELSE "done"]

\* A catch that drops the callback that threw.
SubscribersDroppingThrower(set, cb, threw) == IF threw THEN KeepOthers(set, cb) ELSE set

\* The subscriber Set after a callback threw or returned: the catch only logs.
SubscribersAfterCallback(set, cb, threw) == set

\* One turn of widgetSubscribers[streamName].forEach in notifyWidgets: the
\* next callback is called with the payload and returns or throws.
InvokeCallback(threw) ==
  /\ handler.pc = "notify"
  /\ LET set == widgetSubscribers[handler.stream]
         i == handler.cursor + 1
         after == SubscribersAfterCallback(set, set[i], threw)
     IN  /\ handler' = AfterCallback(handler, set[i], threw, Visited(set, after, i), Len(after))
         /\ widgetSubscribers' = [widgetSubscribers EXCEPT ![handler.stream] = after]
  /\ UNCHANGED <<cacheVars, connections, lastKnown, subscribed, troubled, inFlight, connVars, canvasVars, widgetVars>>

CallbackReturns == InvokeCallback(FALSE)
CallbackThrows == InvokeCallback(TRUE)

\* A callback that, while it is being notified, calls subscribeToStream or
\* unsubscribeFromStream for a callback of the stream being published.
CallbackResubscribes(op, c) ==
  /\ handler.pc = "notify"
  /\ LET set == widgetSubscribers[handler.stream]
         i == handler.cursor + 1
         after == IF op = "subscribe" THEN SetAdd(set, c) ELSE SetDelete(set, c)
     IN  /\ handler' = AfterCallback(handler, set[i], FALSE, Visited(set, after, i), Len(after))
         /\ widgetSubscribers' = [widgetSubscribers EXCEPT ![handler.stream] = after]
  /\ subscribed' = [subscribed EXCEPT ![handler.stream] =
                      IF op = "subscribe"
                        THEN (IF Has(@, c) THEN @ ELSE Append(@, c))
                        ELSE KeepOthers(@, c)]
  /\ UNCHANGED <<cacheVars, connections, lastKnown, troubled, inFlight, connVars, canvasVars, widgetVars>>

CallbackSubscribes == \E c \in Callbacks : CallbackResubscribes("subscribe", c)
CallbackUnsubscribes == \E c \in Callbacks : CallbackResubscribes("unsubscribe", c)

(***************************************************************************)
(* connectStream: the connection of a stream and its reconnection.         *)
(***************************************************************************)
\* setTimeout(() => connectStream(streamName), 5000): the delay in seconds.
ReconnectDelay == 5

\* event.code of a close event: normal, abnormal, server error.
CloseCodes == {1000, 1006, 1011}

NoReconnects == [cause |-> "none", waited |-> 0, waits |-> {}, retried |-> {}]

\* An onclose that reconnects only after an abnormal close.
TimersAfterAbnormalClose(pending, code) ==
  IF code = 1000 THEN pending ELSE pending \cup {ReconnectDelay}

\* The timers of a stream once ws.onclose ran: whatever the code, it ends
\* with setTimeout(() => connectStream(streamName), 5000).
TimersAfterClose(pending, code) == pending \cup {ReconnectDelay}

\* The timers of a stream once the catch of connectStream ran.
TimersAfterFailure(pending) == pending \cup {ReconnectDelay}

\* ws.onopen
SocketOpens(stream) ==
  /\ EventLoopFree
  /\ connections[stream] = "connecting"
  /\ connections' = [connections EXCEPT ![stream] = "open"]
  /\ UNCHANGED <<cacheVars, widgetSubscribers, handler, lastKnown, subscribed, troubled,
                 inFlight, connVars, canvasVars, widgetVars>>

\* ws.onclose, for a socket that was open or never opened.
SocketCloses(stream, code) ==
  /\ EventLoopFree
  /\ connections[stream] \in {"connecting", "open"}
  /\ connections' = [connections EXCEPT ![stream] = "closed"]
  /\ timers' = [timers EXCEPT ![stream] = TimersAfterClose(@, code)]
  /\ reconnects' = [reconnects EXCEPT ![stream].cause = "closed", ![stream].waited = 0]
  /\ UNCHANGED <<cacheVars, widgetSubscribers, handler, lastKnown, subscribed, troubled,
                 inFlight, canvasVars, widgetVars>>

\* The timer was set with setInterval: it is due again after the delay.
TimerFiresAgain(stream) ==
  /\ EventLoopFree
  /\ 0 \in timers[stream]
  /\ connections[stream] # "creating"
  /\ timers' = [timers EXCEPT ![stream] = (@ \ {0}) \cup {ReconnectDelay}]
  /\ connections' = [connections EXCEPT ![stream] = "creating"]
  /\ reconnects' = [reconnects EXCEPT
                      ![stream].waits = @ \cup {reconnects[stream].waited},
                      ![stream].retried = @ \cup {reconnects[stream].cause}]
  /\ UNCHANGED <<cacheVars, widgetSubscribers, handler, lastKnown, subscribed, troubled,
                 inFlight, canvasVars, widgetVars>>

\* A reconnection timer is due: connectStream is called again.
TimerFires(stream) ==
  /\ EventLoopFree
  /\ 0 \in timers[stream]
  /\ connections[stream] # "creating"
  /\ timers' = [timers EXCEPT ![stream] = @ \ {0}]
  /\ connections' = [connections EXCEPT ![stream] = "creating"]
  /\ reconnects' = [reconnects EXCEPT
                      ![stream].waits = @ \cup {reconnects[stream].waited},
                      ![stream].retried = @ \cup {reconnects[stream].cause}]
  /\ UNCHANGED <<cacheVars, widgetSubscribers, handler, lastKnown, subscribed, troubled,
                 inFlight, canvasVars, widgetVars>>

\* connectStream: new WebSocket(...) returned, the handlers are set and the
\* socket is stored in connections.
CreateSucceeds(stream) ==
  /\ connections[stream] = "creating"
  /\ connections' = [connections EXCEPT ![stream] = "connecting"]
  /\ UNCHANGED <<cacheVars, widgetSubscribers, handler, lastKnown, subscribed, troubled,
                 inFlight, connVars, canvasVars, widgetVars>>

\* connectStream: new WebSocket(...) threw, the catch schedules a retry.
CreateThrows(stream) ==
  /\ connections[stream] = "creating"
  /\ connections' = [connections EXCEPT ![stream] = "failed"]
  /\ timers' = [timers EXCEPT ![stream] = TimersAfterFailure(@)]
  /\ reconnects' = [reconnects EXCEPT ![stream].cause = "failed", ![stream].waited = 0]
  /\ UNCHANGED <<cacheVars, widgetSubscribers, handler, lastKnown, subscribed, troubled,
                 inFlight, canvasVars, widgetVars>>

\* A second passes while no timer is due and no connectStream call is running.
Tick ==
  /\ EventLoopFree
  /\ \A s \in Streams : 0 \notin timers[s] /\ connections[s] # "creating"
  /\ \E s \in Streams : timers[s] # {}
  /\ timers' = [s \in Streams |-> {t - 1 : t \in timers[s]}]
  /\ reconnects' = [s \in Streams |->
                      IF timers[s] # {}
                        THEN [reconnects[s] EXCEPT !.waited = @ + 1]
                        ELSE reconnects[s]]
  /\ UNCHANGED <<cacheVars, widgetSubscribers, connections, handler, lastKnown, subscribed,
                 troubled, inFlight, canvasVars, widgetVars>>

\* window.onload called connectStream for the streams of one run.
Runs == {{"telemetry", "log"}, {"balance", "system"}}

InitConn ==
  /\ telemetryData = EmptyMap
  /\ balanceData = EmptyMap
  /\ openOrdersData = <<>>
  /\ systemData = EmptyMap
  /\ keyOrder = [s \in CachedStreams |-> <<>>]
  /\ widgetSubscribers = [s \in Streams |-> <<>>]
  /\ \E run \in Runs :
       connections = [s \in Streams |-> IF s \in run THEN "creating" ELSE "none"]
  /\ handler = Idle
  /\ lastKnown = [s \in CachedStreams |-> EmptyMap]
  /\ subscribed = [s \in Streams |-> <<>>]
  /\ troubled = [s \in Streams |-> FALSE]
  /\ inFlight = 0
  /\ timers = [s \in Streams |-> {}]
  /\ reconnects = [s \in Streams |-> NoReconnects]
  /\ CanvasConstructed(400, 300)

NextConn ==
  \/ \E s \in Streams : SocketOpens(s)
  \/ \E s \in Streams : \E code \in CloseCodes : SocketCloses(s, code)
  \/ \E s \in Streams : TimerFires(s)
  \/ \E s \in Streams : CreateSucceeds(s)
  \/ \E s \in Streams : CreateThrows(s)
  \/ Tick

\* Time passes, due timers run, and a connectStream call runs to its end.
SpecConn ==
  /\ InitConn /\ [][NextConn]_vars
  /\ WF_vars(Tick)
  /\ \A s \in Streams : WF_vars(TimerFires(s))
  /\ \A s \in Streams : WF_vars(CreateSucceeds(s) \/ CreateThrows(s))

(***************************************************************************)
(* The parsers alone: one stream is connected and no widget is mounted.    *)
(***************************************************************************)
\* A log message: a JSON log entry, or text that is not JSON.
LogEntry(n) == [t |-> "obj", id |-> n]
RawLog(n) == [json |-> FALSE, text |-> "line " \o ToString(n)]
JsonLog(v) == [json |-> TRUE, form |-> "entry", value |-> v]
LogMsgs == {RawLog(1), JsonLog(LogEntry(1))}

Msgs(stream) ==
  CASE stream = "telemetry" -> TelemetryMsgs
    [] stream = "balance"   -> BalanceMsgs
    [] stream = "system"    -> SystemMsgs
    [] stream = "log"       -> LogMsgs

InitCache ==
  /\ telemetryData = EmptyMap
  /\ balanceData = EmptyMap
  /\ openOrdersData = <<>>
  /\ systemData = EmptyMap
  /\ keyOrder = [s \in CachedStreams |-> <<>>]
  /\ widgetSubscribers = [s \in Streams |-> <<>>]
  /\ \E open \in CachedStreams :
       connections = [s \in Streams |-> IF s = open THEN "open" ELSE "connecting"]
  /\ handler = Idle
  /\ lastKnown = [s \in CachedStreams |-> EmptyMap]
  /\ subscribed = [s \in Streams |-> <<>>]
  /\ troubled = [s \in Streams |-> FALSE]
  /\ inFlight = 0
  /\ timers = [s \in Streams |-> {}]
  /\ reconnects = [s \in Streams |-> NoReconnects]
  /\ CanvasConstructed(400, 300)

NextCache ==
  \/ \E s \in Streams : \E m \in Msgs(s) : OnMessage(s, m)
  \/ \E s \in Streams : OnEmptyMessage(s)
  \/ HandlerReturns

SpecCache == InitCache /\ [][NextCache]_vars

(***************************************************************************)
(* The pipeline: messages of two open streams are parsed and fanned out to *)
(* the callbacks widgets subscribe and unsubscribe between messages.       *)
(***************************************************************************)
\* The streams that deliver messages in one run.
Feeds == {{"telemetry", "balance"}, {"system", "log"}}

\* The messages of the pipeline: per stream one that does not decode, and
\* those that do; on balance also one whose open_orders is null.
BusMsgs(stream) ==
  CASE stream = "telemetry" ->
         {Garbage} \cup
         {[json |-> TRUE, form |-> "array",
           metrics |-> <<TItem(<<"cpu_temp", "omitted">>, "gauge", v)>>] : v \in 1..MaxValue}
    [] stream = "balance" ->
         {Garbage} \cup
         {[json |-> TRUE, form |-> "object",
           balances |-> JArray(<<[t |-> "obj", asset |-> "BTC", total_balance |-> 1]>>),
           open_orders |-> o] : o \in {JNull, JArray(<<Order("BTCUSD", "buy")>>)}}
    [] stream = "system" ->
         {Garbage} \cup
         {[json |-> TRUE, form |-> "object", fields |-> [k \in {"cpu_usage"} |-> JNum(v)]] :
            v \in 1..MaxValue}
    [] stream = "log" -> LogMsgs

Init ==
  /\ telemetryData = EmptyMap
  /\ balanceData = EmptyMap
  /\ openOrdersData = <<>>
  /\ systemData = EmptyMap
  /\ keyOrder = [s \in CachedStreams |-> <<>>]
  /\ widgetSubscribers = [s \in Streams |-> <<>>]
  /\ \E feed \in Feeds :
       connections = [s \in Streams |-> IF s \in feed THEN "open" ELSE "connecting"]
  /\ handler = Idle
  /\ lastKnown = [s \in CachedStreams |-> EmptyMap]
  /\ subscribed = [s \in Streams |-> <<>>]
  /\ troubled = [s \in Streams |-> FALSE]
  /\ inFlight = 0
  /\ timers = [s \in Streams |-> {}]
  /\ reconnects = [s \in Streams |-> NoReconnects]
  /\ CanvasConstructed(400, 300)

Next ==
  \/ \E s \in Streams : \E m \in BusMsgs(s) : OnMessage(s, m)
  \/ \E s \in Streams : OnEmptyMessage(s)
  \/ HandlerReturns
  \/ \E s \in Streams, cb \in Callbacks : SubscribeToStream(s, cb)
  \/ \E s \in Streams, cb \in Callbacks : UnsubscribeFromStream(s, cb)
  \/ CallbackReturns
  \/ CallbackThrows

Spec == Init /\ [][Next]_vars

\* The pipeline with callbacks that change the subscriptions of the stream
\* while it is being published.
NextReentrant ==
  \/ Next
  \/ CallbackSubscribes
  \/ CallbackUnsubscribes

SpecReentrant == Init /\ [][NextReentrant]_vars

(***************************************************************************)
(* Properties of the caches.                                               *)
(***************************************************************************)
Done(stream) == handler.pc = "done" /\ handler.stream = stream

\* The cache of a stream as it was before the message being handled.
CacheBefore(stream) ==
  CASE stream = "telemetry" -> handler.before[1]
    [] stream = "balance"   -> handler.before[2]
    [] stream = "system"    -> handler.before[4]

\* C1: after any sequence of telemetry, balance and system messages, every
\* key a message once stored is still in the cache of its stream and holds
\* the value of the most recent message that carried it; a message that
\* omits the key (an empty metrics array included) leaves its entry as it was.
C1_LastKnownGood ==
  /\ \A s \in CachedStreams : \A k \in DOMAIN lastKnown[s] :
       /\ k \in DOMAIN CacheOf(s)
       /\ ValueOf(s, CacheOf(s)[k]) = lastKnown[s][k]
  /\ \A s \in CachedStreams :
       Done(s) => \A k \in DOMAIN CacheBefore(s) :
                    /\ k \in DOMAIN CacheOf(s)
                    /\ k \notin handler.keys => CacheOf(s)[k] = CacheBefore(s)[k]

\* C1 witness: a telemetry message with an empty metrics array has been
\* handled while the cache held entries, and a balance was stored earlier.
C1_Witness ==
  /\ Done("telemetry") /\ handler.outcome = "empty"
  /\ "cpu_temp|{}" \in DOMAIN telemetryData
  /\ "cpu_temp|{\"core\":\"0\"}" \in DOMAIN telemetryData

\* C2 as stated: after a decoded balance message, the open-orders list
\* equals the open_orders array of the message element for element.
C2_OrdersEqualArray ==
  Done("balance") /\ handler.outcome \in {"merged", "threw"}
    => openOrdersData = (IF IsArray(handler.orders) THEN handler.orders.items ELSE <<>>)

\* C2 amended: after a balance message that decodes to an object, the
\* open-orders list holds the non-null elements of its open_orders array,
\* in the same order, and nothing of earlier messages; it is empty when the
\* message has no open_orders array.
C2_OrdersAreNonNullElements ==
  Done("balance") /\ handler.outcome \in {"merged", "threw"}
    => openOrdersData =
         (IF IsArray(handler.orders) THEN SelectSeq(handler.orders.items, Truthy) ELSE <<>>)

\* C2 witness: a message whose open_orders holds an order and a null has
\* replaced a list that held other orders.
C2_Witness ==
  /\ Done("balance") /\ handler.outcome = "merged"
  /\ handler.before[3] = <<Order("BTCUSD", "buy"), Order("BTCUSD", "buy")>>
  /\ handler.orders = JArray(<<JNull, Order("ETHUSD", "sell")>>)
  /\ openOrdersData = <<Order("ETHUSD", "sell")>>

\* C7: a telemetry, balance or system message whose text is not valid JSON
\* leaves the three caches and the open-orders list as they were.
C7_MalformedIsNoOp ==
  handler.pc = "done" /\ handler.outcome = "malformed" => cacheVars = handler.before

\* C7 witness: a malformed balance message handled while balances and
\* orders were cached.
C7_Witness ==
  /\ Done("balance") /\ handler.outcome = "malformed"
  /\ balanceData # EmptyMap /\ openOrdersData # <<>>

\* How often a callback was invoked for the message being handled.
Count(seq, cb) == Cardinality({i \in 1..Len(seq) : seq[i] = cb})

\* The message being handled decoded.
Decoded == handler.outcome \notin {"malformed", "raw"}

\* C3: once a non-empty message that decoded has been published, every
\* callback subscribed to its stream when it arrived has been invoked exactly
\* once, however often it was subscribed, and no other callback (one
\* subscribed only to another stream) has been invoked at all; while the
\* publish runs no callback has been invoked twice.
C3_ExactlyOnce ==
  /\ handler.pc = "done" /\ Decoded =>
       \A cb \in Callbacks :
         Count(handler.invoked, cb) = IF Has(handler.snapshot, cb) THEN 1 ELSE 0
  /\ handler.pc = "notify" /\ Decoded =>
       \A cb \in Callbacks :
         Count(handler.invoked, cb) <= IF Has(handler.snapshot, cb) THEN 1 ELSE 0

\* C3 witness: a telemetry message was merged and delivered to the one
\* callback of the telemetry stream, not to the callback of the balance stream.
C3_Witness ==
  /\ Done("telemetry") /\ handler.outcome = "merged"
  /\ handler.invoked = <<1>>
  /\ subscribed["telemetry"] = <<1>> /\ subscribed["balance"] = <<2>>

\* C4: when a callback threw during a publish, the callbacks after it have
\* been invoked for the same message all the same, and the exception has not
\* left notifyWidgets.
C4_ThrowIsolated ==
  handler.pc = "done" /\ handler.thrown > 0 =>
    /\ ~handler.raised
    /\ Len(handler.invoked) = Len(handler.snapshot)
    /\ \A i \in handler.thrown + 1 .. Len(handler.snapshot) :
         handler.invoked[i] = handler.snapshot[i]

\* C4 witness: the first of two callbacks threw and the second was invoked.
C4_Witness ==
  /\ handler.pc = "done" /\ handler.thrown = 1
  /\ Len(handler.invoked) = 2 /\ handler.invoked[1] # handler.invoked[2]

\* C5: a publish has invoked exactly the callbacks that were subscribed when
\* it began, each once, whatever the callbacks subscribed or unsubscribed
\* while it ran.
C5_SnapshotIterated ==
  handler.pc = "done" =>
    \A cb \in Callbacks :
      Count(handler.invoked, cb) = IF Has(handler.snapshot, cb) THEN 1 ELSE 0

\* A callback subscribed before another and still subscribed.
Before(stream, a, b) ==
  /\ Has(subscribed[stream], a) /\ Has(subscribed[stream], b)
  /\ IndexOf(subscribed[stream], a) < IndexOf(subscribed[stream], b)

\* C6: within a publish the callbacks are invoked in the order of their
\* subscriptions, and when the handler is about to return all of them have
\* been invoked.
C6_SubscriptionOrder ==
  /\ handler.pc \in {"notify", "done"} =>
       \A i, j \in 1..Len(handler.invoked) :
         i < j => Before(handler.stream, handler.invoked[i], handler.invoked[j])
  /\ handler.pc = "done" =>
       \A cb \in Callbacks :
         Has(subscribed[handler.stream], cb) => Has(handler.invoked, cb)

\* C6 witness: callback 2 subscribed before callback 1 and ran before it.
C6_Witness ==
  /\ handler.pc = "done"
  /\ subscribed[handler.stream] = <<2, 1>>
  /\ handler.invoked = <<2, 1>>

\* C8: a valid message that follows a message that failed to decode or to
\* process, or a callback that threw, on its own or on another stream, is
\* merged into the cache of its stream and delivered to every subscriber of
\* the stream, and the caches of the other streams stay as they were.
C8_PipelineSurvives ==
  handler.pc = "done" /\ handler.afterTrouble /\ handler.outcome \in {"merged", "parsed"} =>
    /\ handler.invoked = subscribed[handler.stream]
    /\ \A k \in DOMAIN handler.carried :
         /\ k \in DOMAIN CacheOf(handler.stream)
         /\ ValueOf(handler.stream, CacheOf(handler.stream)[k]) = handler.carried[k]
    /\ \A s \in CachedStreams \ {handler.stream} : CacheOf(s) = CacheBefore(s)

\* C8 witness: the last telemetry message failed or a callback threw on
\* it; the next one is merged and delivered to both callbacks, while nothing
\* went wrong on the balance stream.
C8_Witness ==
  /\ Done("telemetry") /\ handler.outcome = "merged"
  /\ troubled["telemetry"] /\ ~troubled["balance"]
  /\ Len(handler.invoked) = 2
  /\ handler.carried # EmptyMap

\* C9: at most one message is being handled at any time, and while its
\* subscribers are notified the caches are as its merge left them and hold
\* the latest value of every key of the messages received so far.
C9_OneMessageAtATime ==
  /\ inFlight <= 1
  /\ handler.pc = "idle" => inFlight = 0
  /\ handler.pc \in {"notify", "done"} =>
       /\ inFlight = 1
       /\ cacheVars = handler.merged
       /\ \A s \in CachedStreams : \A k \in DOMAIN lastKnown[s] :
            /\ k \in DOMAIN CacheOf(s)
            /\ ValueOf(s, CacheOf(s)[k]) = lastKnown[s][k]

\* C9 witness: the second of two callbacks is about to be notified of a
\* telemetry message that overwrote the value of an earlier one.
C9_Witness ==
  /\ handler.pc = "notify" /\ handler.stream = "telemetry" /\ handler.cursor = 1
  /\ "cpu_temp|{}" \in DOMAIN handler.before[1]
  /\ handler.before[1]["cpu_temp|{}"] # telemetryData["cpu_temp|{}"]

\* A stream whose connection closed or could not be created.
Down(stream) == connections[stream] \in {"closed", "failed"}

\* C10: after every close of the connection of a stream and after every
\* failure to create it, connectStream is called again for that stream; a
\* retry is always pending while the stream is down, and every retry so far
\* waited exactly the 5 seconds, whatever the number of retries before it.
C10_ReconnectsForever ==
  /\ [](\A s \in Streams :
          /\ Down(s) => timers[s] # {}
          /\ reconnects[s].waits \subseteq {ReconnectDelay})
  /\ \A s \in Streams : Down(s) ~> connections[s] = "creating"

\* C10 witness: connectStream is being called for a stream after a close
\* and, earlier, after a failed creation, each after 5 seconds.
C10_Witness ==
  \E s \in Streams :
    /\ connections[s] = "creating"
    /\ reconnects[s].retried = {"closed", "failed"}
    /\ reconnects[s].waits = {ReconnectDelay}

(***************************************************************************)
(* Canvas: zoom by the keyboard and by pinching.                           *)
(***************************************************************************)
\* The streams, their caches and the subscriber Sets while the canvas is
\* worked on: nothing connected, nothing received.
DataAtRest ==
  /\ telemetryData = EmptyMap
  /\ balanceData = EmptyMap
  /\ openOrdersData = <<>>
  /\ systemData = EmptyMap
  /\ keyOrder = [s \in CachedStreams |-> <<>>]
  /\ widgetSubscribers = [s \in Streams |-> <<>>]
  /\ connections = [s \in Streams |-> "none"]
  /\ handler = Idle
  /\ lastKnown = [s \in CachedStreams |-> EmptyMap]
  /\ subscribed = [s \in Streams |-> <<>>]
  /\ troubled = [s \in Streams |-> FALSE]
  /\ inFlight = 0
  /\ timers = [s \in Streams |-> {}]
  /\ reconnects = [s \in Streams |-> NoReconnects]

MaxTerm == 6       \* scales are fractions of terms up to MaxTerm
MaxDistance == 2   \* the distance between two touches ranges over 0..MaxDistance
MaxTouches == 2    \* fingers on the screen at a time
MaxGrid == 12      \* widgets are dragged within the grid cells 0..MaxGrid
MaxDrags == 2      \* drags started in a run
MaxPending == 2    \* flag timers of endDrag pending at a time

Distances == 0..MaxDistance

Representable(scale) == scale[1] <= MaxTerm /\ scale[2] <= MaxTerm

\* updateCanvasSize: the element's width, height and transform follow the
\* scale; the widgets are not touched.
UpdateCanvasSize(ws, scale) == ws

\* Canvas.setScale(newScale)
SetScale(c, newScale) == [c EXCEPT !.scale = newScale]

\* The scale handleKeyDown passes to setScale for Ctrl/Cmd with +, - or 0.
KeyScale(c, key) ==
  CASE key = "+" -> RMin(maxScale, RMul(c.scale, <<6, 5>>))
    [] key = "-" -> RMax(minScale, RDiv(c.scale, <<6, 5>>))
    [] key = "0" -> RInt(1)

\* Canvas.handleTouchStart with n touches on the screen, the first two
\* `distance` apart.
HandleTouchStart(c, n, distance) ==
  IF n >= 2 THEN [c EXCEPT !.isZooming = TRUE, !.lastTouchDistance = distance] ELSE c

\* A pinch that does not clamp.
PinchScaleUnclamped(c, distance) == RMul(c.scale, Rat(distance, c.lastTouchDistance))

\* The scale a pinch move asks for.
PinchScale(c, distance) ==
  RMax(minScale, RMin(maxScale, RMul(c.scale, Rat(distance, c.lastTouchDistance))))

\* Canvas.handleTouchMove
HandleTouchMove(c, n, distance) ==
  IF c.isZooming /\ n >= 2
    THEN LET zoomed == IF c.lastTouchDistance > 0
                         THEN SetScale(c, PinchScale(c, distance))
                         ELSE c
         IN  [zoomed EXCEPT !.lastTouchDistance = distance]
    ELSE c

\* Canvas.handleTouchEnd with n touches remaining.
HandleTouchEnd(c, n) ==
  LET ended == IF n < 2 THEN [c EXCEPT !.isZooming = FALSE, !.lastTouchDistance = 0] ELSE c
  IN  IF ~ended.isZooming /\ n = 0 THEN [ended EXCEPT !.selected = "none"] ELSE ended

(***************************************************************************)
(* Canvas: the widget registry and the base dimensions.                    *)
(***************************************************************************)
\* constrainWidgetToBounds
\* Only the element is positioned, the coordinates stay as they are.
PositionElement(w) == [w EXCEPT !.left = w.x * GRID_SIZE, !.top = w.y * GRID_SIZE]

ConstrainWidgetToBounds(w) ==
  LET x == Max(0, w.x)
      y == Max(0, w.y)
  IN  [w EXCEPT !.x = x, !.y = y, !.left = x * GRID_SIZE, !.top = y * GRID_SIZE]

\* calculateWidgetBounds
CalculateWidgetBounds(ws, cont) ==
  IF DOMAIN ws = {}
    THEN [width |-> cont.offsetWidth, height |-> cont.offsetHeight]
    ELSE LET maxX == MaxOf({0} \cup {ws[id].x + ws[id].width : id \in DOMAIN ws})
             maxY == MaxOf({0} \cup {ws[id].y + ws[id].height : id \in DOMAIN ws})
         IN  [width |-> (maxX + 2) * GRID_SIZE, height |-> (maxY + 2) * GRID_SIZE]

\* updateCanvasToFitWidgets
UpdateCanvasToFitWidgets(c, ws, cont) ==
  LET widgetBounds == CalculateWidgetBounds(ws, cont)
  IN  [c EXCEPT !.baseWidth = Max(widgetBounds.width, cont.offsetWidth),
                !.baseHeight = Max(widgetBounds.height, cont.offsetHeight)]

\* The widget object a drag holds has not left the cells of the model.
WithinGrid(dd) ==
  dd.draggedWidget # "none" => dd.held.x <= MaxGrid /\ dd.held.y <= MaxGrid

\* A function without one of its keys, and with one more.
Without(f, id) == [k \in DOMAIN f \ {id} |-> f[k]]
With(f, id, v) == [k \in DOMAIN f \cup {id} |-> IF k = id THEN v ELSE f[k]]

(***************************************************************************)
(* DragDropManager.                                                        *)
(***************************************************************************)
\* getCanvasCoordinates: (client - canvasRect.left) / scale on each axis.
GetCanvasCoordinates(pointer, cont, scale) ==
  <<RDiv(RInt(pointer[1] - cont.left), scale), RDiv(RInt(pointer[2] - cont.top), scale)>>

\* startDrag: the widget is held, the offset recorded, and four listeners,
\* each a new function made by bind, are added to document.
StartDrag(dd, id, w, pointer, cont, scale) ==
  LET coords == GetCanvasCoordinates(pointer, cont, scale)
  IN  [dd EXCEPT !.draggedWidget = id, !.held = w, !.registered = TRUE,
                 !.isDragging = TRUE,
                 !.dragOffset = <<RSub(coords[1], RInt(w.left)),
                                  RSub(coords[2], RInt(w.top))>>,
                 !.listeners = @ + 1, !.ended = 0]

\* The position handleDrag computes before it snaps it.
Unsnapped(dd, pointer, cont, scale) ==
  LET coords == GetCanvasCoordinates(pointer, cont, scale)
  IN  <<RSub(coords[1], dd.dragOffset[1]), RSub(coords[2], dd.dragOffset[2])>>

\* A snap without the minimum of 0.
SnapUnclamped(v) == Round(RDiv(v, RInt(GRID_SIZE))) * GRID_SIZE

\* Math.round(v / GRID_SIZE) * GRID_SIZE, then Math.max(0, .)
SnapAndClamp(v) == Max(0, Round(RDiv(v, RInt(GRID_SIZE))) * GRID_SIZE)

\* handleDrag: the dragged widget after a pointer move.
Dragged(w, raw) ==
  LET newX == SnapAndClamp(raw[1])
      newY == SnapAndClamp(raw[2])
  IN  [w EXCEPT !.left = newX, !.top = newY,
                !.x = Round(Rat(newX, GRID_SIZE)), !.y = Round(Rat(newY, GRID_SIZE))]

\* Whether handleDrag and endDrag go past their first line.
DragActive(dd) == dd.isDragging /\ dd.draggedWidget # "none"

\* handleDrag: the widget object being dragged after a pointer move.
HandleDrag(dd, pointer, cont, scale) ==
  IF DragActive(dd)
    THEN [dd EXCEPT !.held = Dragged(@, Unsnapped(dd, pointer, cont, scale))]
    ELSE dd

\* The registry once the drag manager changed the widget object it holds:
\* a widget removed from the canvas in the meantime is not in the registry.
Registry(ws, dd) ==
  IF dd.registered THEN [ws EXCEPT ![dd.draggedWidget] = dd.held] ELSE ws

\* The canvas once the elements of widgets were removed from it: none of
\* its elements that is selected is among them.
Gone(c, ids) == [c EXCEPT !.selected = IF @ \in ids THEN "none" ELSE @]

\* The drag manager once widgets left the registry: it may hold one of them.
Unregister(dd, ids) ==
  IF dd.draggedWidget \in ids THEN [dd EXCEPT !.registered = FALSE] ELSE dd

\* StorageManager.updateWidget(id, {position})
UpdateWidget(st, id, w) ==
  LET found == {i \in 1..Len(st.widgets) : st.widgets[i].id = id}
      widgetIndex == CHOOSE i \in found : \A j \in found : i <= j
  IN  IF found # {}
        THEN [st EXCEPT !.widgets[widgetIndex] = [id |-> id, x |-> w.x, y |-> w.y]]
        ELSE st

\* endDrag that leaves isDragging and draggedWidget as they are.
EndDragKeepsDragging(dd) ==
  IF DragActive(dd)
    THEN [dd EXCEPT !.justFinishedDrag = TRUE, !.flagTimers = @ + 1, !.ended = @ + 1]
    ELSE dd

\* endDrag that does not raise justFinishedDrag.
EndDragWithoutFlag(dd) ==
  IF DragActive(dd)
    THEN [dd EXCEPT !.isDragging = FALSE, !.draggedWidget = "none", !.held = "none",
                    !.registered = FALSE, !.ended = @ + 1]
    ELSE dd

\* endDrag: the drag manager, the storage and the canvas after one call.
\* removeEventListener is handed four functions bind has just made, none of
\* which is on document: the listeners stay.
EndDragManager(dd) ==
  IF DragActive(dd)
    THEN [dd EXCEPT !.isDragging = FALSE, !.draggedWidget = "none", !.held = "none",
                    !.registered = FALSE,
                    !.justFinishedDrag = TRUE, !.flagTimers = @ + 1, !.ended = @ + 1]
    ELSE dd
EndDragStorage(st, dd) ==
  IF DragActive(dd) THEN UpdateWidget(st, dd.draggedWidget, dd.held) ELSE st
EndDragCanvas(c, ws, dd, cont) ==
  IF DragActive(dd)
    THEN [UpdateCanvasToFitWidgets(c, ws, cont) EXCEPT
            !.selected = IF dd.registered /\ @ = dd.draggedWidget THEN "none" ELSE @]
    ELSE c

\* One endDrag listener runs on the manager, the storage and the canvas.
EndDrag(s, ws, cont) ==
  [dragDrop |-> EndDragManager(s.dragDrop),
   storage |-> EndDragStorage(s.storage, s.dragDrop),
   canvas |-> EndDragCanvas(s.canvas, ws, s.dragDrop, cont)]

\* mouseup or touchend reaches document: each of the n endDrag listeners
\* that are on it runs in turn.
RECURSIVE EndDragListeners(_, _, _, _)
EndDragListeners(s, ws, cont, n) ==
  IF n = 0 THEN s ELSE EndDragListeners(EndDrag(s, ws, cont), ws, cont, n - 1)

\* The state the listeners of a release start from.
Released(dd, st, c) == [dragDrop |-> dd, storage |-> st, canvas |-> c]

\* selectWidget: every widget is deselected, then the one of the id, if it
\* is mounted, is selected.
SelectWidget(c, ws, id) ==
  [c EXCEPT !.selected = IF id \in DOMAIN ws THEN id ELSE "none"]

\* deselectAllWidgets
DeselectAllWidgets(c) == [c EXCEPT !.selected = "none"]

\* The click and touchend listeners setupWidgetSelection puts on the element
\* of widget id.
SelectionListener(c, ws, dd, id) ==
  IF dd.justFinishedDrag THEN c ELSE SelectWidget(c, ws, id)

\* The flag timers of the earlier drags have fired: the gestures are more
\* than 100 ms apart.
Unhurried == dragDrop.flagTimers = 0

\* A drag may start: the bounds on the listeners and the pending timers.
DragsBounded == dragDrop.listeners < MaxDrags /\ dragDrop.flagTimers < MaxPending

(***************************************************************************)
(* The events of the canvas, each with all the listeners it reaches.       *)
(***************************************************************************)
\* keydown with Ctrl or Cmd and +, - or 0: handleKeyDown.
KeyDown(key) ==
  /\ Representable(KeyScale(canvas, key))
  /\ canvas' = SetScale(canvas, KeyScale(canvas, key))
  /\ widgets' = UpdateCanvasSize(widgets, canvas'.scale)
  /\ UNCHANGED <<container, dragDrop, touches, storage, layout, probe, menu, creations, dataVars, widgetVars>>

\* touchstart of one more finger, on a widget or on the background: the
\* listener of the widget element, then Canvas.handleTouchStart on document.
TouchStart(target, pointer, distance) ==
  /\ Len(touches) < MaxTouches
  /\ target \in DOMAIN widgets \cup {"canvas"}
  /\ touches = <<>> => distance = 0
  /\ touches' = Append(touches, target)
  /\ IF target # "canvas" /\ ~canvas.isZooming /\ ~(Len(touches') > 1)
       THEN /\ DragsBounded
            /\ dragDrop' = StartDrag(dragDrop, target, widgets[target], pointer, container,
                                     canvas.scale)
       ELSE dragDrop' = dragDrop
  /\ canvas' = HandleTouchStart(canvas, Len(touches'), distance)
  /\ UNCHANGED <<container, widgets, storage, layout, probe, menu, creations, dataVars, widgetVars>>

\* touchmove: Canvas.handleTouchMove, then the handleDrag listeners that
\* startDrag added to document; `pointer` is the first touch.
TouchMove(pointer, distance) ==
  /\ Len(touches) >= 1
  /\ Len(touches) = 1 => distance = 0
  /\ LET c == HandleTouchMove(canvas, Len(touches), distance)
         dd == HandleDrag(dragDrop, pointer, container, c.scale)
     IN  /\ Representable(c.scale)
         /\ WithinGrid(dd)
         /\ canvas' = c
         /\ dragDrop' = dd
         /\ widgets' = Registry(UpdateCanvasSize(widgets, c.scale), dd)
  /\ UNCHANGED <<container, touches, storage, layout, probe, menu, creations, dataVars, widgetVars>>

\* touchend of finger i: the selection listener of the widget the finger
\* went down on, then on document Canvas.handleTouchEnd and the endDrag
\* listeners.
TouchEnd(i) ==
  /\ i \in 1..Len(touches)
  /\ touches' = [j \in 1..(Len(touches) - 1) |-> IF j < i THEN touches[j] ELSE touches[j + 1]]
  /\ LET picked == IF touches[i] = "canvas" THEN canvas
                   ELSE SelectionListener(canvas, widgets, dragDrop, touches[i])
         c == HandleTouchEnd(picked, Len(touches'))
         s == EndDragListeners(Released(dragDrop, storage, c), widgets, container,
                               dragDrop.listeners)
     IN  /\ canvas' = s.canvas
         /\ storage' = s.storage
         /\ dragDrop' = s.dragDrop
  /\ UNCHANGED <<container, widgets, layout, probe, menu, creations, dataVars, widgetVars>>

\* mousedown on a widget: startDrag.
MouseDown(id, pointer) ==
  /\ id \in DOMAIN widgets
  /\ DragsBounded
  /\ dragDrop' = StartDrag(dragDrop, id, widgets[id], pointer, container, canvas.scale)
  /\ UNCHANGED <<canvas, container, widgets, touches, storage, layout, probe, menu, creations, dataVars, widgetVars>>

\* mousemove: the handleDrag listeners.
MouseMove(pointer) ==
  /\ DragActive(dragDrop)
  /\ dragDrop' = HandleDrag(dragDrop, pointer, container, canvas.scale)
  /\ WithinGrid(dragDrop')
  /\ widgets' = Registry(widgets, dragDrop')
  /\ UNCHANGED <<canvas, container, touches, storage, layout, probe, menu, creations, dataVars, widgetVars>>

\* mouseup: the endDrag listeners.
MouseUp ==
  /\ DragActive(dragDrop)
  /\ LET s == EndDragListeners(Released(dragDrop, storage, canvas), widgets, container,
                               dragDrop.listeners)
     IN  /\ canvas' = s.canvas
         /\ storage' = s.storage
         /\ dragDrop' = s.dragDrop
  /\ UNCHANGED <<container, widgets, touches, layout, probe, menu, creations, dataVars, widgetVars>>

\* click on the element of widget id, away from its remove button: the
\* selection listener; the canvas listener sees a target that is not the
\* canvas.
Click(id) ==
  /\ id \in DOMAIN widgets
  /\ canvas' = SelectionListener(canvas, widgets, dragDrop, id)
  /\ UNCHANGED <<container, widgets, dragDrop, touches, storage, layout, probe, menu, creations, dataVars,
                 widgetVars>>

\* click on the empty canvas.
ClickCanvas ==
  /\ canvas' = DeselectAllWidgets(canvas)
  /\ UNCHANGED <<container, widgets, dragDrop, touches, storage, layout, probe, menu, creations, dataVars,
                 widgetVars>>

\* A timer endDrag set 100 ms earlier fires.
FlagTimerFires ==
  /\ dragDrop.flagTimers > 0
  /\ dragDrop' = [dragDrop EXCEPT !.justFinishedDrag = FALSE, !.flagTimers = @ - 1]
  /\ UNCHANGED <<canvas, container, widgets, touches, storage, layout, probe, menu, creations, dataVars,
                 widgetVars>>

(***************************************************************************)
(* The widget objects: what each kind renders, how a widget is mounted,    *)
(* notified and destroyed.                                                 *)
(***************************************************************************)
\* The kinds of the widget registry and the stream each one reads.
Kinds ==
  {"telemetry-gauge", "telemetry-counter", "telemetry-histogram", "telemetry-metric",
   "balance-assets", "balance-orders", "balance-single", "balance-orders-single",
   "system-cpu", "system-memory", "system-metric", "log-stream"}

StreamOf(kind) ==
  CASE kind \in {"telemetry-gauge", "telemetry-counter", "telemetry-histogram",
                 "telemetry-metric"} -> "telemetry"
    [] kind \in {"balance-assets", "balance-orders", "balance-single",
                 "balance-orders-single"} -> "balance"
    [] kind \in {"system-cpu", "system-memory", "system-metric"} -> "system"
    [] OTHER -> "log"

\* The kinds whose class has a subscribeToUpdates method: BalanceOrdersWidget
\* calls it from createElement and does not define it.
DefinesSubscribeToUpdates(kind) == kind # "balance-orders"

\* LogStreamWidget.maxLines
maxLines == 50

\* What content.innerHTML shows: a placeholder text, the card of one entry,
\* the cards of several, or the log lines.
Placeholder(text) == [shows |-> "placeholder", text |-> text]
Card(key, entry) == [shows |-> "entry", key |-> key, entry |-> entry]
Cards(entries) == [shows |-> "list", entries |-> entries]
LogLines(lines) == [shows |-> "log", lines |-> lines]

\* Object.values(cache): the entries in the order of their keys.
Values(stream) ==
  [i \in 1..Len(keyOrder[stream]) |-> CacheOf(stream)[keyOrder[stream][i]]]

\* Array.prototype.slice(0, n) and slice(-n)
Take(seq, n) == SubSeq(seq, 1, IF Len(seq) < n THEN Len(seq) ELSE n)
Last(seq, n) == IF Len(seq) <= n THEN seq ELSE SubSeq(seq, Len(seq) - n + 1, Len(seq))

\* balances.sort((a, b) => b.total_balance - a.total_balance): descending,
\* entries of equal balance in the order they had.
RECURSIVE SortByBalance(_)
SortByBalance(seq) ==
  IF seq = <<>> THEN <<>>
  ELSE LET e == seq[Len(seq)]
           rest == SortByBalance(SubSeq(seq, 1, Len(seq) - 1))
           Ahead(x) == x.total_balance >= e.total_balance
           Behind(x) == x.total_balance < e.total_balance
       IN  SelectSeq(rest, Ahead) \o <<e>> \o SelectSeq(rest, Behind)

\* new WidgetClass(widgetConfig): the fields the constructors set.
NewWidget(cfg) ==
  [type |-> cfg.type,
   targetKey |-> IF cfg.type \in {"balance-assets", "system-cpu", "system-memory", "log-stream"}
                   THEN "none" ELSE cfg.key,
   selectedMetric |-> JNull,
   content |-> Placeholder(""),
   logLines |-> <<>>,
   received |-> <<>>,   \* history: what update was called with (log widgets)
   updateCallback |-> FALSE]

\* updateContent of the group widgets of telemetry: the configured metric,
\* or the first `limit` metrics of their type.
TelemetryGroupContent(w, type, limit) ==
  IF w.targetKey # "none"
    THEN IF w.targetKey \in DOMAIN telemetryData
           THEN Card(w.targetKey, telemetryData[w.targetKey])
           ELSE Placeholder("Metric not available")
    ELSE LET OfType(e) == e.type = type
             found == SelectSeq(Values("telemetry"), OfType)
         IN  IF found = <<>> THEN Placeholder("No " \o type \o " metrics available")
             ELSE Cards(Take(found, limit))

\* TelemetryMetricWidget.updateContent: the configured metric when the cache
\* has it; otherwise the entry selected before, or the first of the cache,
\* which becomes the selected one.
TelemetryMetricContent(w) ==
  IF w.targetKey # "none" /\ w.targetKey \in DOMAIN telemetryData
    THEN [w EXCEPT !.content = Card(w.targetKey, telemetryData[w.targetKey])]
  ELSE IF Values("telemetry") = <<>>
    THEN [w EXCEPT !.content = Placeholder("No metrics available")]
  ELSE LET metric == IF w.selectedMetric # JNull THEN w.selectedMetric
                     ELSE Values("telemetry")[1]
       IN  [w EXCEPT !.selectedMetric = metric, !.content = Card(metric.key, metric)]

\* BalanceSingleWidget.updateContent: the configured asset when the cache
\* has it, otherwise the first asset of the cache.
BalanceSingleContent(w) ==
  IF w.targetKey # "none" /\ w.targetKey \in DOMAIN balanceData
    THEN Card(w.targetKey, balanceData[w.targetKey])
  ELSE IF Values("balance") = <<>> THEN Placeholder("No asset balances available")
  ELSE Card(Values("balance")[1].asset, Values("balance")[1])

\* SystemMetricWidget.updateContent: the target metric when the cache has
\* it; otherwise the first metric with a scalar value, whose key becomes the
\* target.
ScalarMetrics ==
  LET Scalar(k) == systemData[k].value.t \notin {"array", "obj", "null"}
  IN  SelectSeq(keyOrder["system"], Scalar)

SystemMetricContent(w) ==
  IF w.targetKey # "none" /\ w.targetKey \in DOMAIN systemData
    THEN [w EXCEPT !.content = Card(w.targetKey, systemData[w.targetKey])]
  ELSE IF ScalarMetrics = <<>>
    THEN [w EXCEPT !.content = Placeholder("No system metrics available")]
  ELSE LET key == ScalarMetrics[1]
       IN  [w EXCEPT !.targetKey = key, !.content = Card(key, systemData[key])]

\* updateContent of the two widgets of the open orders.
OrdersOf(symbol) ==
  LET OfSymbol(o) == o.symbol = symbol IN SelectSeq(openOrdersData, OfSymbol)

BalanceOrdersContent(w) ==
  IF openOrdersData = <<>> THEN Placeholder("No open orders")
  ELSE LET ordersToShow == IF w.targetKey # "none" THEN OrdersOf(w.targetKey)
                           ELSE openOrdersData
       IN  IF ordersToShow = <<>> THEN Placeholder("No orders for selected symbol")
           ELSE Cards(Take(ordersToShow, 6))

BalanceOrdersSingleContent(w) ==
  IF w.targetKey = "none" THEN Placeholder("No symbol configured")
  ELSE IF openOrdersData = <<>> THEN Placeholder("No open orders")
  ELSE IF OrdersOf(w.targetKey) = <<>> THEN Placeholder("No orders for symbol")
  ELSE Cards(OrdersOf(w.targetKey))

\* updateContent: the widget object after it rendered from the caches.
UpdateContent(w) ==
  CASE w.type = "telemetry-gauge" ->
         [w EXCEPT !.content = TelemetryGroupContent(w, "gauge", 6)]
    [] w.type = "telemetry-counter" ->
         [w EXCEPT !.content = TelemetryGroupContent(w, "counter", 6)]
    [] w.type = "telemetry-histogram" ->
         [w EXCEPT !.content = TelemetryGroupContent(w, "histogram", 4)]
    [] w.type = "telemetry-metric" -> TelemetryMetricContent(w)
    [] w.type = "balance-assets" ->
         [w EXCEPT !.content =
            IF Values("balance") = <<>> THEN Placeholder("No asset balances available")
            ELSE Cards(Take(SortByBalance(Values("balance")), 8))]
    [] w.type = "balance-orders" -> [w EXCEPT !.content = BalanceOrdersContent(w)]
    [] w.type = "balance-single" -> [w EXCEPT !.content = BalanceSingleContent(w)]
    [] w.type = "balance-orders-single" ->
         [w EXCEPT !.content = BalanceOrdersSingleContent(w)]
    [] w.type = "system-cpu" ->
         [w EXCEPT !.content =
            IF "cpu_usage" \in DOMAIN systemData
              THEN Card("cpu_usage", systemData["cpu_usage"])
              ELSE Placeholder("CPU data not available")]
    [] w.type = "system-memory" ->
         [w EXCEPT !.content =
            IF {"memory_total", "memory_used"} \subseteq DOMAIN systemData
              THEN Cards(<<systemData["memory_total"], systemData["memory_used"]>>)
              ELSE Placeholder("Memory data not available")]
    [] w.type = "system-metric" -> SystemMetricContent(w)
    [] w.type = "log-stream" ->
         [w EXCEPT !.content =
            IF w.logLines = <<>> THEN Placeholder("Waiting for log messages...")
            ELSE LogLines(Last(w.logLines, maxLines))]

\* addLogEntry without the cap on the lines held.
AddLogEntryUncapped(w, entry) ==
  UpdateContent([w EXCEPT !.logLines = Append(w.logLines, entry)])

\* LogStreamWidget.addLogEntry
AddLogEntry(w, entry) ==
  LET lines == Append(w.logLines, entry)
  IN  UpdateContent([w EXCEPT !.logLines = IF Len(lines) > maxLines * 2
                                             THEN Last(lines, maxLines) ELSE lines])

\* The cleanup callback of the log widget's setInterval.
Cleanup(w) ==
  IF Len(w.logLines) > maxLines
    THEN UpdateContent([w EXCEPT !.logLines = Last(w.logLines, maxLines)])
    ELSE w

\* update(data), the callback each widget subscribes: the log widget adds
\* the entry if it is truthy, the others render again.
Update(w, data) ==
  IF w.type = "log-stream"
    THEN LET r == [w EXCEPT !.received = Append(@, data)]
         IN  IF Truthy(data) THEN AddLogEntry(r, data) ELSE r
    ELSE UpdateContent(w)

\* createElement up to subscribeToUpdates: the widget object rendered and
\* holding its callback, or the TypeError of calling a method the class
\* does not have.
CreateElement(w) ==
  [threw |-> ~DefinesSubscribeToUpdates(w.type),
   widget |-> [UpdateContent(w) EXCEPT !.updateCallback = DefinesSubscribeToUpdates(w.type)]]

\* BaseWidget.destroy alone: the element is removed, the callback stays.
StillSubscribed(subs, ws, id) == subs

\* The subscriber Sets after destroy() of widget id: every class that
\* subscribes unsubscribes its callback.
Unsubscribed(subs, ws, id) ==
  IF ws[id].updateCallback
    THEN [subs EXCEPT ![StreamOf(ws[id].type)] = SetDelete(@, id)]
    ELSE subs

RECURSIVE UnsubscribedAll(_, _, _)
UnsubscribedAll(subs, ws, ids) ==
  IF ids = {} THEN subs
  ELSE LET id == CHOOSE i \in ids : TRUE
       IN  UnsubscribedAll(Unsubscribed(subs, ws, id), ws, ids \ {id})

\* StorageManager.addWidget: config.widgets.push(widgetConfig)
StorageAddWidget(st, id, x, y) ==
  [st EXCEPT !.widgets = Append(@, [id |-> id, x |-> x, y |-> y])]

WidgetIds == {"w1", "w2"}

\* Where and how large a widget is created, in grid units.
Placements == {<<0, 0, 4, 3>>, <<10, 10, 4, 3>>}

\* The sizes the viewport takes, in pixels.
Viewports == {<<400, 300>>, <<100, 100>>}

\* Where the pointer or the first finger is, in viewport pixels.
Pointers == {<<0, 0>>, <<203, 203>>}

\* The configs the storage may hold in a run.
MaxStored == 3

\* createAndPlaceWidget(widgetConfig, skipStorage): new WidgetClass(config);
\* canvas.addWidget(widget), which returns at once for an id it has and
\* otherwise mounts the widget (createElement renders and subscribes),
\* registers it and fits the canvas; then storageManager.addWidget unless
\* the config comes from the storage. A throw on the way is caught and
\* logged, and nothing after it runs.
Placed(cfg, skipStorage) ==
  /\ EventLoopFree
  /\ ~skipStorage => Len(storage.widgets) < MaxStored
  /\ LET id == cfg.id
         p == cfg.place
         made == CreateElement(NewWidget(cfg))
         w == ConstrainWidgetToBounds([x |-> p[1], y |-> p[2], width |-> p[3],
                                       height |-> p[4], left |-> 0, top |-> 0])
     IN  IF id \in DOMAIN widgets
           THEN /\ storage' = IF skipStorage THEN storage
                               ELSE StorageAddWidget(storage, id, p[1], p[2])
                /\ UNCHANGED <<canvas, widgets, widgetSubscribers, subscribed, widgetVars>>
         ELSE IF made.threw
           THEN /\ errors' = errors \cup {cfg.type}
                /\ UNCHANGED <<canvas, widgets, storage, widgetSubscribers, subscribed,
                               instances, intervals, destroyed>>
         ELSE /\ widgets' = With(widgets, id, w)
              /\ instances' = With(instances, id, made.widget)
              /\ widgetSubscribers' =
                   [widgetSubscribers EXCEPT ![StreamOf(cfg.type)] = SetAdd(@, id)]
              /\ subscribed' = [subscribed EXCEPT ![StreamOf(cfg.type)] =
                                  IF Has(@, id) THEN @ ELSE Append(@, id)]
              /\ intervals' = IF cfg.type = "log-stream" THEN intervals \cup {id}
                              ELSE intervals
              /\ destroyed' = {d \in destroyed : d.id # id}
              /\ errors' = errors
              /\ canvas' = UpdateCanvasToFitWidgets(canvas, widgets', container)
              /\ storage' = IF skipStorage THEN storage
                            ELSE StorageAddWidget(storage, id, w.x, w.y)
  /\ UNCHANGED <<container, dragDrop, touches, layout, probe, feedVars>>

CreateAndPlaceWidget(cfg, skipStorage) ==
  /\ Placed(cfg, skipStorage)
  /\ UNCHANGED <<menu, creations>>

\* A widget of a new id is placed from the widget menu or from the storage.
AddWidget(id, p, save) ==
  /\ id \notin DOMAIN widgets
  /\ CreateAndPlaceWidget([id |-> id, type |-> "system-cpu", key |-> "none", place |-> p],
                          ~save)

\* Canvas.removeWidget: the widget is destroyed and leaves the registry, the
\* canvas is fitted again; the storage follows once the import resolves.
MountedWidgetRemoved(id) ==
  /\ id \in DOMAIN widgets
  /\ widgets' = Without(widgets, id)
  /\ instances' = Without(instances, id)
  /\ widgetSubscribers' = Unsubscribed(widgetSubscribers, instances, id)
  /\ subscribed' = Unsubscribed(subscribed, instances, id)
  /\ intervals' = intervals \ {id}
  /\ destroyed' = destroyed \cup {[id |-> id, type |-> instances[id].type]}
  /\ errors' = errors
  /\ dragDrop' = Unregister(dragDrop, {id})
  /\ storage' = [storage EXCEPT !.removing = @ \cup {id}]
  /\ canvas' = UpdateCanvasToFitWidgets(Gone(canvas, {id}), widgets', container)
  /\ UNCHANGED <<container, touches, layout, probe, menu, creations, feedVars>>

\* removeWidget(widgetId): nothing happens for an id the registry lacks.
RemoveWidget(id) ==
  /\ EventLoopFree
  /\ IF id \in DOMAIN widgets THEN MountedWidgetRemoved(id) ELSE UNCHANGED vars

\* The first saved config of the id is spliced out, the others stay.
StorageRemovesFirst(id) ==
  /\ id \in storage.removing
  /\ LET found == {i \in 1..Len(storage.widgets) : storage.widgets[i].id = id}
         first == CHOOSE i \in found : \A j \in found : i <= j
         Kept(i) == storage.widgets[IF i < first THEN i ELSE i + 1]
     IN  storage' = [widgets |-> IF found = {} THEN storage.widgets
                                 ELSE [i \in 1..(Len(storage.widgets) - 1) |-> Kept(i)],
                     removing |-> storage.removing \ {id}]
  /\ UNCHANGED <<canvas, container, widgets, dragDrop, touches, layout, probe, menu, creations, dataVars, widgetVars>>

\* import('../utils/storage.js').then(...): storageManager.removeWidget.
StorageRemoves(id) ==
  /\ id \in storage.removing
  /\ LET Other(c) == c.id # id
     IN  storage' = [widgets |-> SelectSeq(storage.widgets, Other),
                     removing |-> storage.removing \ {id}]
  /\ UNCHANGED <<canvas, container, widgets, dragDrop, touches, layout, probe, menu, creations, dataVars, widgetVars>>

\* The requests in flight when the dashboard is cleared were made before it.
Superseded(cr) ==
  [i \in DOMAIN cr |->
     [cr[i] EXCEPT !.configs = [j \in DOMAIN @ |-> [@[j] EXCEPT !.stale = TRUE]]]]

\* The clear-all button: storageManager.clearAll(), then Canvas.clear().
ClearAll ==
  /\ EventLoopFree
  /\ creations' = Superseded(creations)
  /\ storage' = [storage EXCEPT !.widgets = <<>>]
  /\ widgets' = NoWidgets
  /\ instances' = NoWidgets
  /\ widgetSubscribers' = UnsubscribedAll(widgetSubscribers, instances, DOMAIN instances)
  /\ subscribed' = UnsubscribedAll(subscribed, instances, DOMAIN instances)
  /\ intervals' = intervals \ DOMAIN instances
  /\ destroyed' = destroyed \cup {[id |-> id, type |-> instances[id].type] : id \in DOMAIN instances}
  /\ errors' = errors
  /\ dragDrop' = Unregister(dragDrop, DOMAIN widgets)
  /\ canvas' = Gone(canvas, DOMAIN widgets)
  /\ UNCHANGED <<container, touches, layout, probe, menu, feedVars>>

\* resize of the window: handleResize.
Resize(v) ==
  /\ container' = [container EXCEPT !.offsetWidth = v[1], !.offsetHeight = v[2]]
  /\ canvas' = UpdateCanvasToFitWidgets(canvas, widgets, container')
  /\ widgets' = [id \in DOMAIN widgets |-> ConstrainWidgetToBounds(widgets[id])]
  /\ UNCHANGED <<dragDrop, touches, storage, layout, probe, menu, creations, dataVars, widgetVars>>

\* One turn of widgetSubscribers[streamName].forEach in notifyWidgets when
\* the callbacks are those of the widgets, data => this.update(data).
NotifyWidget ==
  /\ handler.pc = "notify"
  /\ LET set == widgetSubscribers[handler.stream]
         id == set[handler.cursor + 1]
     IN  /\ handler' = AfterCallback(handler, id, FALSE, handler.cursor + 1, Len(set))
         /\ instances' = [instances EXCEPT ![id] = Update(@, handler.data)]
  /\ UNCHANGED <<cacheVars, widgetSubscribers, connections, lastKnown, subscribed, troubled,
                 inFlight, connVars, canvasVars, intervals, destroyed, errors>>

\* The cleanup timer of a log widget fires.
CleanupTick(id) ==
  /\ EventLoopFree
  /\ id \in intervals
  /\ instances' = [instances EXCEPT ![id] = Cleanup(@)]
  /\ UNCHANGED <<dataVars, canvasVars, intervals, destroyed, errors>>

\* The registry: widgets are added, dragged with the mouse and removed, the
\* window is resized.
InitCanvas ==
  /\ DataAtRest
  /\ \E v \in Viewports : CanvasConstructed(v[1], v[2])

NextCanvas ==
  \/ \E id \in WidgetIds, p \in Placements, save \in BOOLEAN : AddWidget(id, p, save)
  \/ \E id \in WidgetIds : RemoveWidget(id)
  \/ \E id \in WidgetIds : StorageRemoves(id)
  \/ ClearAll
  \/ \E v \in Viewports : Resize(v)
  \/ \E id \in WidgetIds, pointer \in Pointers : Unhurried /\ MouseDown(id, pointer)
  \/ \E pointer \in Pointers : MouseMove(pointer)
  \/ MouseUp
  \/ FlagTimerFires

SpecCanvas == InitCanvas /\ [][NextCanvas]_vars

\* The gestures: one widget is mounted, then keys and fingers zoom the canvas
\* and drag the widget.
InitGestures ==
  /\ DataAtRest
  /\ CanvasConstructed(400, 300)

NextGestures ==
  \/ AddWidget("w1", <<0, 0, 4, 3>>, TRUE)
  \/ \E key \in {"+", "-", "0"} : KeyDown(key)
  \/ \E target \in {"w1", "canvas"}, pointer \in Pointers, distance \in Distances :
       Unhurried /\ TouchStart(target, pointer, distance)
  \/ \E pointer \in Pointers, distance \in Distances : TouchMove(pointer, distance)
  \/ \E i \in 1..MaxTouches : TouchEnd(i)
  \/ FlagTimerFires

SpecGestures == InitGestures /\ [][NextGestures]_vars

\* The gestures and, besides, direct calls of canvas.setScale.
ScaleArgs == {<<1, 10>>, <<1, 4>>, <<1, 1>>, <<2, 1>>, <<3, 1>>}

\* canvas.setScale(x), called directly.
CallSetScale(x) ==
  /\ canvas' = SetScale(canvas, x)
  /\ widgets' = UpdateCanvasSize(widgets, x)
  /\ UNCHANGED <<container, dragDrop, touches, storage, layout, probe, menu, creations, dataVars, widgetVars>>

NextSetScale ==
  \/ NextGestures
  \/ \E x \in ScaleArgs : CallSetScale(x)

SpecSetScale == InitGestures /\ [][NextSetScale]_vars

(***************************************************************************)
(* Zoom.                                                                   *)
(***************************************************************************)
InRange(scale) == RLeq(minScale, scale) /\ RLeq(scale, maxScale)

\* The bound of [0.25, 2.0] nearest to x, x itself when it lies within.
Nearest(x) ==
  IF RLess(x, minScale) THEN minScale ELSE IF RLess(maxScale, x) THEN maxScale ELSE x

\* C11: a call setScale(x) stores the bound of [0.25, 2.0] nearest to x, so
\* x itself when it lies within: the stored scale is in range after the call.
C11_SetScaleClamps ==
  [][\A x \in ScaleArgs : CallSetScale(x) => canvas'.scale = Nearest(x)]_vars

\* C12: through keyboard zoom and pinches the scale stays within
\* [0.25, 2.0], and a pinch move from a distance above zero stores the old
\* scale times current distance / previous distance, clamped to the range.
C12_GesturesKeepScaleInRange ==
  /\ [](InRange(canvas.scale))
  /\ [][\A pointer \in Pointers, distance \in Distances :
          TouchMove(pointer, distance) /\ canvas.isZooming /\ Len(touches) >= 2
            => IF canvas.lastTouchDistance > 0
                 THEN canvas'.scale =
                        Nearest(Rat(canvas.scale[1] * distance,
                                    canvas.scale[2] * canvas.lastTouchDistance))
                 ELSE canvas'.scale = canvas.scale]_vars

\* C12 witness: during a pinch the two fingers met, the distance became
\* zero and the scale went to the lower bound.
C12_Witness ==
  /\ canvas.isZooming /\ canvas.lastTouchDistance = 0
  /\ canvas.scale = minScale
  /\ "w1" \in DOMAIN widgets

(***************************************************************************)
(* AutoLayout.calculateLayout.                                             *)
(***************************************************************************)
MaxWidgets == 3
Margin == 1

\* Widget sizes in grid units, <<width, height>>.
Sizes == {<<4, 3>>, <<2, 5>>, <<7, 1>>}

WidgetLists == UNION {[1..n -> Sizes] : n \in 0..MaxWidgets}

\* Viewports of the canvases that are laid out, in pixels.
LayoutViewports == {<<120, 40>>, <<120, 100>>, <<127, 200>>, <<70, 200>>, <<240, 200>>}

\* The pixel size updateCanvasSize gives the element, which clientWidth reads.
ElementSize(base, scale) == RMax(RInt(base), RDiv(RInt(base), scale))

\* Math.floor(clientWidth / GRID_SIZE)
GridCells(size) == LET q == RDiv(size, RInt(GRID_SIZE)) IN q[1] \div q[2]

\* A new row placed over the previous one.
NextRowYCramped(currentY, maxHeightInRow) == currentY + Margin

\* A new row that leaves no margin.
NextRowYNoMargin(currentY, maxHeightInRow) == currentY + maxHeightInRow

\* currentY += maxHeightInRow + this.margin
NextRowY(currentY, maxHeightInRow) == currentY + maxHeightInRow + Margin

\* The locals before the loop.  row, rows, wrapped and skipped record the
\* branches the loop took for each widget.
LayoutLocals ==
  [currentX |-> 0, currentY |-> 0, maxHeightInRow |-> 0, positions |-> <<>>,
   row |-> 1, rows |-> <<>>, wrapped |-> <<>>, skipped |-> <<>>]

\* A row test that looks at the left edge of the widget only.
RowFullAtLeftEdge(currentX, widgetWidth, canvasWidth) == currentX > canvasWidth

\* if (currentX + widgetWidth > canvasWidth)
RowFull(currentX, widgetWidth, canvasWidth) == currentX + widgetWidth > canvasWidth

\* One iteration of the loop, for a widget of size <<width, height>>.
PlaceWidget(st, size, canvasWidth, canvasHeight) ==
  LET widgetWidth  == size[1]
      widgetHeight == size[2]
      wrap == RowFull(st.currentX, widgetWidth, canvasWidth)
      x1 == IF wrap THEN 0 ELSE st.currentX
      y1 == IF wrap THEN NextRowY(st.currentY, st.maxHeightInRow) ELSE st.currentY
      m1 == IF wrap THEN 0 ELSE st.maxHeightInRow
      r1 == IF wrap THEN st.row + 1 ELSE st.row
      skip == y1 + widgetHeight > canvasHeight
      y2 == IF skip THEN Max(y1 + widgetHeight + Margin * 2, y1 + 4) ELSE y1
  IN  [currentX |-> x1 + widgetWidth + Margin,
       currentY |-> y2,
       maxHeightInRow |-> Max(m1, widgetHeight),
       positions |-> Append(st.positions, [x |-> x1, y |-> y2]),
       row |-> r1,
       rows |-> Append(st.rows, r1),
       wrapped |-> Append(st.wrapped, wrap),
       skipped |-> Append(st.skipped, skip)]

RECURSIVE LayoutLoop(_, _, _, _)
LayoutLoop(st, ws, canvasWidth, canvasHeight) ==
  IF ws = <<>> THEN st
  ELSE LayoutLoop(PlaceWidget(st, Head(ws), canvasWidth, canvasHeight),
                  Tail(ws), canvasWidth, canvasHeight)

\* autoLayout.calculateLayout(ws) on the canvas as it is.
CalculateLayout(ws) ==
  LET canvasWidth  == GridCells(ElementSize(canvas.baseWidth, canvas.scale))
      canvasHeight == GridCells(ElementSize(canvas.baseHeight, canvas.scale))
      st == LayoutLoop(LayoutLocals, ws, canvasWidth, canvasHeight)
  IN  /\ layout' = [pc |-> "returned", widgets |-> ws,
                    canvasWidth |-> canvasWidth, canvasHeight |-> canvasHeight,
                    positions |-> st.positions, rows |-> st.rows,
                    wrapped |-> st.wrapped, skipped |-> st.skipped]
      /\ UNCHANGED <<canvas, container, widgets, dragDrop, touches, storage, probe, menu, creations, dataVars, widgetVars>>

InitLayout ==
  /\ DataAtRest
  /\ \E v \in LayoutViewports : CanvasConstructed(v[1], v[2])

NextLayout == \E ws \in WidgetLists : CalculateLayout(ws)

SpecLayout == InitLayout /\ [][NextLayout]_vars

\* The grid rectangles of widgets i and j of the call share a cell.
Overlap(i, j) ==
  LET a == layout.positions[i]
      b == layout.positions[j]
  IN  /\ a.x < b.x + layout.widgets[j][1] /\ b.x < a.x + layout.widgets[i][1]
      /\ a.y < b.y + layout.widgets[j][2] /\ b.y < a.y + layout.widgets[i][2]

Returned == layout.pc = "returned"

\* C13: the positions one calculateLayout call returns give pairwise
\* non-overlapping grid rectangles [x, x+width) x [y, y+height), one
\* position for each widget of the list.
C13_LayoutNeverOverlaps ==
  Returned =>
    /\ Len(layout.positions) = Len(layout.widgets)
    /\ \A i, j \in 1..Len(layout.positions) : i # j => ~Overlap(i, j)

\* C13 witness: three widgets were placed, one of them in a second row and
\* one moved down a page.
C13_Witness ==
  /\ Returned /\ Len(layout.positions) = 3
  /\ \E i \in 1..3 : layout.wrapped[i]
  /\ \E i \in 1..3 : layout.skipped[i]

\* C33: in one packing call every widget whose width does not exceed the
\* canvas width in grid units is placed with x >= 0 and x + width <= canvas
\* width, and every widget is placed with y >= 0.
C33_PackedWithinCanvasWidth ==
  Returned =>
    \A i \in 1..Len(layout.positions) :
      /\ layout.positions[i].y >= 0
      /\ (layout.widgets[i][1] <= layout.canvasWidth =>
            /\ layout.positions[i].x >= 0
            /\ layout.positions[i].x + layout.widgets[i][1] <= layout.canvasWidth)

\* C33 witness: a call placed a widget wider than the canvas and, after it,
\* wrapped a widget that fits to the start of a new row, where a third one
\* followed it in the same row.
C33_Witness ==
  /\ Returned
  /\ \E j \in 1..Len(layout.positions) : layout.widgets[j][1] > layout.canvasWidth
  /\ \E i \in 1..Len(layout.positions) :
       /\ layout.wrapped[i] /\ layout.widgets[i][1] <= layout.canvasWidth
       /\ layout.positions[i].x = 0 /\ layout.positions[i].y > 0
  /\ \E i \in 1..Len(layout.positions) :
       /\ ~layout.wrapped[i] /\ layout.positions[i].x > 0
       /\ layout.positions[i].x + layout.widgets[i][1] <= layout.canvasWidth

\* The widgets of the row before the row of widget i.
PreviousRow(i) == {j \in 1..Len(layout.rows) : layout.rows[j] = layout.rows[i] - 1}

\* The largest bottom edge (y + height) among the widgets js.
LargestBottom(js) ==
  LET bottoms == {layout.positions[j].y + layout.widgets[j][2] : j \in js}
  IN  CHOOSE b \in bottoms : \A c \in bottoms : c <= b

\* Widget i opened a new row at x = 0, one margin under the previous row.
BelowPreviousRow(i) ==
  /\ layout.positions[i].x = 0
  /\ (PreviousRow(i) # {} =>
        layout.positions[i].y = LargestBottom(PreviousRow(i)) + 1)

\* C14 as stated: a widget that would overflow the row width is placed at
\* x = 0 in a new row whose y is the largest bottom edge of the previous row
\* plus the margin of 1; two widgets {4,3} in a canvas of grid width 6 are
\* placed at (0,0) and (0,4).
C14_WrapBelowPreviousRow ==
  Returned =>
    /\ \A i \in 1..Len(layout.positions) : layout.wrapped[i] => BelowPreviousRow(i)
    /\ (layout.widgets = <<(<<4, 3>>), (<<4, 3>>)>> /\ layout.canvasWidth = 6)
         => layout.positions = <<[x |-> 0, y |-> 0], [x |-> 0, y |-> 4]>>

\* No widget up to widget i overflowed the canvas height.
NoPageSkipUpTo(i) == \A j \in 1..i : ~layout.skipped[j]

\* C14: a widget that would overflow the row width is placed at x = 0 in a
\* new row; when no widget of the call up to and including it overflowed
\* the canvas height, the row's y is the largest bottom edge of the previous
\* row plus the margin of 1, and two widgets {4,3} in a canvas of grid width
\* 6 and grid height 7 or more are placed at (0,0) and (0,4).
C14_WrapBelowPreviousRowOnPage ==
  Returned =>
    /\ \A i \in 1..Len(layout.positions) :
         layout.wrapped[i] =>
           /\ layout.positions[i].x = 0
           /\ (NoPageSkipUpTo(i) => BelowPreviousRow(i))
    /\ (/\ layout.widgets = <<(<<4, 3>>), (<<4, 3>>)>>
        /\ layout.canvasWidth = 6
        /\ layout.canvasHeight >= 7)
         => layout.positions = <<[x |-> 0, y |-> 0], [x |-> 0, y |-> 4]>>

\* C14 witness: the two widgets {4,3} in a canvas of grid width 6, the
\* second one wrapped to (0,4).
C14_Witness ==
  /\ Returned /\ layout.widgets = <<(<<4, 3>>), (<<4, 3>>)>>
  /\ layout.canvasWidth = 6
  /\ layout.wrapped = <<FALSE, TRUE>>
  /\ layout.positions = <<[x |-> 0, y |-> 0], [x |-> 0, y |-> 4]>>

(***************************************************************************)
(* Dragging.                                                               *)
(***************************************************************************)
\* pixel is a multiple of the grid size nearest to raw, or 0 when that
\* multiple would be negative.
SnappedFrom(raw, pixel) ==
  /\ pixel >= 0
  /\ pixel % GRID_SIZE = 0
  /\ IF pixel = 0
       THEN RLeq(raw, RInt(GRID_SIZE \div 2))
       ELSE /\ RLeq(RInt(2 * pixel - GRID_SIZE), RMul(RInt(2), raw))
            /\ RLeq(RMul(RInt(2), raw), RInt(2 * pixel + GRID_SIZE))

\* C15: on every pointer move during a drag the widget's pixel position is
\* (pointer canvas coordinate - recorded offset) snapped per axis to the
\* nearest multiple of 20 and then clamped to at least 0, with no upper
\* bound, and its grid position is that pixel position divided by 20.
C15_DragSnapsToGrid ==
  [][\A pointer \in Pointers, distance \in Distances :
       TouchMove(pointer, distance) /\ DragActive(dragDrop)
         => LET raw == Unsnapped(dragDrop, pointer, container, canvas'.scale)
                w   == dragDrop'.held
            IN  /\ SnappedFrom(raw[1], w.left)
                /\ SnappedFrom(raw[2], w.top)
                /\ w.x * GRID_SIZE = w.left
                /\ w.y * GRID_SIZE = w.top
                /\ dragDrop'.registered => widgets'[dragDrop'.draggedWidget] = w]_vars

\* C15 witness: grabbed at its corner and moved to the pointer position
\* (203, 203) at scale 1, the widget is at pixel (200, 200), grid (10, 10).
C15_Witness ==
  /\ DragActive(dragDrop)
  /\ dragDrop.dragOffset = <<RInt(0), RInt(0)>>
  /\ canvas.scale = RInt(1)
  /\ "w1" \in DOMAIN widgets
  /\ widgets["w1"].left = 200 /\ widgets["w1"].top = 200
  /\ widgets["w1"].x = 10 /\ widgets["w1"].y = 10

(***************************************************************************)
(* Canvas.snapToGrid and Canvas.getGridPosition.                           *)
(***************************************************************************)
MaxCoord == 90

\* Coordinates in steps of half a pixel, from -MaxCoord/2 to MaxCoord/2.
Coords == {Rat(n, 2) : n \in -MaxCoord..MaxCoord}

\* The scales of [0.25, 2.0] with terms up to MaxTerm.
Scales == {sc \in {Rat(n, d) : n \in 1..MaxTerm, d \in 1..MaxTerm} : InRange(sc)}

\* Where the canvas element's corner is in the viewport (getBoundingClientRect).
Origins == {<<0, 0>>, <<-35, 12>>}

GridPositions == (0..MaxGrid) \X {0, 7}

\* A snap to the centre of the cell.
SnapToCellCentre(x, y) ==
  <<Round(RDiv(x, RInt(GRID_SIZE))) * GRID_SIZE + GRID_SIZE \div 2,
    Round(RDiv(y, RInt(GRID_SIZE))) * GRID_SIZE + GRID_SIZE \div 2>>

\* canvas.snapToGrid(x, y)
SnapToGrid(x, y) ==
  <<Round(RDiv(x, RInt(GRID_SIZE))) * GRID_SIZE,
    Round(RDiv(y, RInt(GRID_SIZE))) * GRID_SIZE>>

\* getGridPosition that leaves the zoom out.
GetGridPositionUnscaled(client, rect, scale) ==
  <<Round(RDiv(RSub(client[1], RInt(rect[1])), RInt(GRID_SIZE))),
    Round(RDiv(RSub(client[2], RInt(rect[2])), RInt(GRID_SIZE)))>>

\* canvas.getGridPosition(clientX, clientY) with the element's corner at rect.
GetGridPosition(client, rect, scale) ==
  LET canvasX == RDiv(RSub(client[1], RInt(rect[1])), scale)
      canvasY == RDiv(RSub(client[2], RInt(rect[2])), scale)
  IN  <<Round(RDiv(canvasX, RInt(GRID_SIZE))), Round(RDiv(canvasY, RInt(GRID_SIZE)))>>

\* Where the corner of grid cell g is drawn: style.left = g * GRID_SIZE on
\* an element under transform scale(s) with origin top left.
ToViewport(g, rect, scale) ==
  <<RAdd(RInt(rect[1]), RMul(RInt(g[1] * GRID_SIZE), scale)),
    RAdd(RInt(rect[2]), RMul(RInt(g[2] * GRID_SIZE), scale))>>

\* snapToGrid(x, y), and snapToGrid of what it returned.
CallSnapToGrid(x, y) ==
  /\ probe' = LET snapped == SnapToGrid(x, y)
              IN  [op |-> "snapToGrid", args |-> <<x, y>>, result |-> snapped,
                   again |-> SnapToGrid(RInt(snapped[1]), RInt(snapped[2]))]
  /\ UNCHANGED <<canvas, container, widgets, dragDrop, touches, storage, layout, menu, creations, dataVars, widgetVars>>

\* The snap of handleDrag on one axis, and the same snap of its result.
CallDragSnap(v) ==
  /\ probe' = LET snapped == SnapAndClamp(v)
              IN  [op |-> "handleDrag", args |-> v, result |-> snapped,
                   again |-> SnapAndClamp(RInt(snapped))]
  /\ UNCHANGED <<canvas, container, widgets, dragDrop, touches, storage, layout, menu, creations, dataVars, widgetVars>>

\* getGridPosition of the viewport coordinate of grid position g.
CallGetGridPosition(g, rect, scale) ==
  /\ probe' = [op |-> "getGridPosition", args |-> g, rect |-> rect, scale |-> scale,
               result |-> GetGridPosition(ToViewport(g, rect, scale), rect, scale)]
  /\ UNCHANGED <<canvas, container, widgets, dragDrop, touches, storage, layout, menu, creations, dataVars, widgetVars>>

InitGeometry == DataAtRest /\ CanvasConstructed(400, 300)

NextGeometry ==
  \/ \E x \in Coords, y \in {RInt(0), RInt(30)} : CallSnapToGrid(x, y)
  \/ \E v \in Coords : CallDragSnap(v)
  \/ \E g \in GridPositions, rect \in Origins, sc \in Scales : CallGetGridPosition(g, rect, sc)

SpecGeometry == InitGeometry /\ [][NextGeometry]_vars

OnGrid(v) == v[2] = 1 /\ v[1] % GRID_SIZE = 0

\* C16: grid snapping is idempotent: a coordinate that is already a multiple
\* of the grid size is returned unchanged, so snap(snap(p)) = snap(p), for
\* snapToGrid and for the snap of handleDrag.
C16_SnapIdempotent ==
  /\ probe.op = "snapToGrid" =>
       /\ probe.again = probe.result
       /\ OnGrid(probe.args[1]) => probe.result[1] = probe.args[1][1]
       /\ OnGrid(probe.args[2]) => probe.result[2] = probe.args[2][1]
  /\ probe.op = "handleDrag" =>
       /\ probe.again = probe.result
       /\ (OnGrid(probe.args) /\ probe.args[1] >= 0) => probe.result = probe.args[1]

\* C16 witness: 30, halfway between two multiples, was snapped to 40 and
\* the second snap left 40.
C16_Witness ==
  /\ probe.op = "snapToGrid"
  /\ probe.args = <<RInt(30), RInt(30)>>
  /\ probe.result = <<40, 40>>
  /\ probe.again = <<40, 40>>

\* C17: for every grid position g and every scale s in [0.25, 2.0], the
\* viewport coordinate canvas origin + g x 20 x s, passed to
\* getGridPosition, gives g back.
C17_GridRoundTrip ==
  probe.op = "getGridPosition" => probe.result = probe.args

\* C17 witness: grid position (10, 7) at scale 5/6 on a scrolled canvas.
C17_Witness ==
  /\ probe.op = "getGridPosition"
  /\ probe.args = <<10, 7>>
  /\ probe.scale = <<5, 6>>
  /\ probe.rect = <<-35, 12>>
  /\ probe.result = <<10, 7>>

(***************************************************************************)
(* The base size of the canvas.                                            *)
(***************************************************************************)
\* The largest of a non-empty set of numbers.
Largest(ns) == CHOOSE n \in ns : \A m \in ns : m <= n

\* The base size fits the viewport and the mounted widgets with a padding of
\* 2 grid units.
BaseFitsContent ==
  IF DOMAIN widgets = {}
    THEN /\ canvas.baseWidth = container.offsetWidth
         /\ canvas.baseHeight = container.offsetHeight
    ELSE LET right  == Largest({widgets[id].x + widgets[id].width : id \in DOMAIN widgets})
             bottom == Largest({widgets[id].y + widgets[id].height : id \in DOMAIN widgets})
         IN  /\ canvas.baseWidth = Max(container.offsetWidth, (right + 2) * GRID_SIZE)
             /\ canvas.baseHeight = Max(container.offsetHeight, (bottom + 2) * GRID_SIZE)

\* A structural change of the registry, or a resize of the viewport.
StructuralChange ==
  \/ \E id \in WidgetIds, p \in Placements, save \in BOOLEAN : AddWidget(id, p, save)
  \/ \E id \in WidgetIds : RemoveWidget(id)
  \/ ClearAll
  \/ MouseUp
  \/ \E v \in Viewports : Resize(v)

\* C18: after every structural change of the registry (widget added,
\* widget removed, canvas cleared, drag released) and after a resize of the
\* viewport, baseWidth is the maximum of the viewport width and (largest
\* x + width of the mounted widgets + 2) x 20, baseHeight likewise, and with
\* no mounted widgets they are the viewport size.
C18_BaseFitsAfterChange == [][StructuralChange => BaseFitsContent']_vars

(***************************************************************************)
(* Zoom and drag together.                                                 *)
(***************************************************************************)
\* Grid position and grid size of every mounted widget.
GridLayout(ws) ==
  [id \in DOMAIN ws |->
     [x |-> ws[id].x, y |-> ws[id].y, width |-> ws[id].width, height |-> ws[id].height]]

\* C19: any change of zoom (keyboard zoom, pinch zoom, direct setScale)
\* leaves every mounted widget's grid position and grid size, the
\* membership of the registry and the persisted configuration unchanged.
C19_ZoomMovesNothing ==
  [][canvas'.scale # canvas.scale
       => /\ GridLayout(widgets') = GridLayout(widgets)
          /\ storage' = storage]_vars

\* C20: while two or more touches are active, a touch move changes only the
\* zoom scale and never a widget position, also when the first finger
\* started a drag before the second finger landed.
C20_PinchMovesNoWidget ==
  [][\A pointer \in Pointers, distance \in Distances :
       (TouchMove(pointer, distance) /\ Len(touches) >= 2)
         => GridLayout(widgets') = GridLayout(widgets)]_vars

(***************************************************************************)
(* The widgets at work: any kind is requested, notified of the messages    *)
(* of the open stream, removed, cleared.                                   *)
(***************************************************************************)
\* The key a config names, by kind: that of a metric, an asset or a symbol
\* the stream may carry; the group widgets are given none.
ConfigKey(kind) ==
  CASE kind = "telemetry-metric" -> "cpu_temp|{}"
    [] kind = "balance-single" -> "BTC"
    [] kind = "balance-orders-single" -> "BTCUSD"
    [] kind = "system-metric" -> "cpu_usage"
    [] OTHER -> "none"

Configs ==
  {[id |-> id, type |-> kind, key |-> ConfigKey(kind), place |-> <<0, 0, 4, 3>>] :
     id \in WidgetIds, kind \in Kinds}

\* The log messages a mounted log widget is sent in a run.
MaxLogs == 2
LogsBounded(stream) ==
  stream = "log" => \A id \in DOMAIN instances : Len(instances[id].received) < MaxLogs

\* The messages the widgets are shown: those of the pipeline that decode,
\* and the log lines.
WidgetMsgs(stream) == {m \in BusMsgs(stream) : m.json \/ stream = "log"}

\* Nothing received yet, no widget mounted, one stream connected.
InitWidgets ==
  /\ telemetryData = EmptyMap
  /\ balanceData = EmptyMap
  /\ openOrdersData = <<>>
  /\ systemData = EmptyMap
  /\ keyOrder = [s \in CachedStreams |-> <<>>]
  /\ widgetSubscribers = [s \in Streams |-> <<>>]
  /\ \E open \in Streams :
       connections = [s \in Streams |-> IF s = open THEN "open" ELSE "connecting"]
  /\ handler = Idle
  /\ lastKnown = [s \in CachedStreams |-> EmptyMap]
  /\ subscribed = [s \in Streams |-> <<>>]
  /\ troubled = [s \in Streams |-> FALSE]
  /\ inFlight = 0
  /\ timers = [s \in Streams |-> {}]
  /\ reconnects = [s \in Streams |-> NoReconnects]
  /\ CanvasConstructed(400, 300)

NextWidgets ==
  \/ \E cfg \in Configs : CreateAndPlaceWidget(cfg, TRUE)
  \/ \E id \in WidgetIds : RemoveWidget(id)
  \/ ClearAll
  \/ \E id \in WidgetIds : CleanupTick(id)
  \/ \E s \in Streams : \E m \in WidgetMsgs(s) : LogsBounded(s) /\ OnMessage(s, m)
  \/ NotifyWidget
  \/ HandlerReturns

SpecWidgets == InitWidgets /\ [][NextWidgets]_vars

\* The cache (for the orders widgets the order list) a kind renders from
\* holds nothing; a log widget starts with no lines.
NothingToShow(kind) ==
  CASE kind \in {"balance-orders", "balance-orders-single"} -> openOrdersData = <<>>
    [] kind = "log-stream" -> TRUE
    [] OTHER -> CacheOf(StreamOf(kind)) = EmptyMap

\* C21: for every kind of the widget registry, creating a widget with a
\* fresh id and adding it to the canvas renders its initial content from the
\* current cache (a placeholder when the cache is empty) and leaves the
\* widget in the canvas registry, its callback subscribed to the channel of
\* its kind.
C21_MountRendersAndSubscribes ==
  [][\A cfg \in Configs :
       (cfg.id \notin DOMAIN widgets /\ CreateAndPlaceWidget(cfg, TRUE))
       => /\ cfg.id \in DOMAIN widgets'
          /\ cfg.id \in DOMAIN instances'
          /\ instances'[cfg.id].content = UpdateContent(NewWidget(cfg)).content
          /\ (NothingToShow(cfg.type) => instances'[cfg.id].content.shows = "placeholder")
          /\ Has(widgetSubscribers'[StreamOf(cfg.type)], cfg.id)]_vars

(***************************************************************************)
(* Messages that do not decode, or decode to an unexpected shape.          *)
(***************************************************************************)
\* C26: a telemetry, balance or system message that fails to decode is
\* dropped: no subscriber of its channel is notified for it.
C26_UndecodableNotPublished ==
  (handler.stream \in CachedStreams /\ handler.outcome = "malformed")
    => handler.invoked = <<>>

\* C27: a message that is valid JSON but of an unexpected shape for its
\* channel (a balance message whose open_orders or balances is not an
\* array, a message that is no object) leaves the caches and the
\* open-orders list as they were.
C27_UnexpectedShapeIsNoOp ==
  (handler.pc = "done" /\ handler.outcome \in {"unrecognized", "threw"})
    => cacheVars = handler.before

\* C22: a destroyed widget is inert. Whether it was removed on its own or
\* by a clear of the canvas, its callback is in no subscriber set, no publish
\* made since then has invoked its update, and the cleanup timer it owned is
\* cancelled, so it cannot fire again.
C22_DestroyedIsInert ==
  \A d \in destroyed :
    /\ \A s \in Streams : ~Has(widgetSubscribers[s], d.id)
    /\ ~Has(handler.invoked, d.id)
    /\ d.id \notin intervals
    /\ ~ENABLED CleanupTick(d.id)

\* A log widget was destroyed and a later log message was published to
\* another widget that is still mounted.
C22_Witness ==
  /\ \E d \in destroyed : d.type = "log-stream"
  /\ handler.pc = "done"
  /\ handler.stream = "log"
  /\ handler.invoked # <<>>

(***************************************************************************)
(* The log widget at work: one LogStreamWidget is mounted and the log      *)
(* stream delivers lines, JSON entries and JSON values that are falsy,     *)
(* while the cleanup timer of the widget fires in between.                 *)
(***************************************************************************)
MaxArrivals == 4

\* The lines a run starts from: the widget has just been mounted, or it has
\* received that many entries since, none of them trimmed yet.
Backlogs == {0, maxLines - 2, 2 * maxLines - 2}

\* JSON texts such as null, 0, false and "".
FalsyValues == {JNull, JNum(0), [t |-> "bool", b |-> FALSE], [t |-> "str", s |-> ""]}

\* What the log stream may deliver as its n-th message.
Arrivals(n) == {RawLog(n), JsonLog(LogEntry(n))} \cup {JsonLog(v) : v \in FalsyValues}

LogConfig == [id |-> "w1", type |-> "log-stream", key |-> "none", place |-> <<0, 0, 4, 3>>]

\* The log widget after its first k messages, JSON entries all of them.
LogWidgetHolding(k) ==
  LET lines == [i \in 1..k |-> LogEntry(i)]
  IN  CreateElement([NewWidget(LogConfig) EXCEPT !.logLines = lines,
                                                 !.received = lines]).widget

\* The messages delivered so far to the log widget.
Delivered == Len(instances[LogConfig.id].received)

InitLog ==
  /\ telemetryData = EmptyMap
  /\ balanceData = EmptyMap
  /\ openOrdersData = <<>>
  /\ systemData = EmptyMap
  /\ keyOrder = [s \in CachedStreams |-> <<>>]
  /\ widgetSubscribers = [s \in Streams |-> IF s = "log" THEN <<LogConfig.id>> ELSE <<>>]
  /\ subscribed = widgetSubscribers
  /\ connections = [s \in Streams |-> IF s = "log" THEN "open" ELSE "connecting"]
  /\ handler = Idle
  /\ lastKnown = [s \in CachedStreams |-> EmptyMap]
  /\ troubled = [s \in Streams |-> FALSE]
  /\ inFlight = 0
  /\ timers = [s \in Streams |-> {}]
  /\ reconnects = [s \in Streams |-> NoReconnects]
  /\ container = [left |-> 0, top |-> 0, offsetWidth |-> 400, offsetHeight |-> 300]
  /\ widgets = With(NoWidgets, LogConfig.id,
                    ConstrainWidgetToBounds([x |-> 0, y |-> 0, width |-> 4, height |-> 3,
                                             left |-> 0, top |-> 0]))
  /\ canvas = UpdateCanvasToFitWidgets(
                [scale |-> RInt(1), isZooming |-> FALSE, lastTouchDistance |-> 0,
                 baseWidth |-> 400, baseHeight |-> 300, selected |-> "none"],
                widgets, container)
  /\ \E k \in Backlogs : instances = With(NoWidgets, LogConfig.id, LogWidgetHolding(k))
  /\ intervals = {LogConfig.id}
  /\ destroyed = {}
  /\ errors = {}
  /\ dragDrop = NewDragDropManager
  /\ touches = <<>>
  /\ storage = [widgets |-> <<>>, removing |-> {}]
  /\ layout = [pc |-> "none"]
  /\ probe = [op |-> "none"]
  /\ menu = NewContextMenu
  /\ creations = NoCreations

NextLog ==
  \/ /\ \E k \in Backlogs : k <= Delivered /\ Delivered < k + MaxArrivals
     /\ \E m \in Arrivals(Delivered + 1) : OnMessage("log", m)
  \/ NotifyWidget
  \/ HandlerReturns
  \/ CleanupTick(LogConfig.id)

SpecLog == InitLog /\ [][NextLog]_vars

\* s is the end of t.
IsSuffix(s, t) ==
  /\ Len(s) <= Len(t)
  /\ \A i \in 1..Len(s) : s[i] = t[Len(t) - Len(s) + i]

\* The log entries a widget received: what update() handed to addLogEntry.
Entries(w) == SelectSeq(w.received, Truthy)

\* C23: whatever entries a log widget received and whenever its cleanup
\* timer fired, it holds at most 2 * maxLines entries, they are the end of
\* the sequence of the entries received, in the order of arrival, and the
\* last maxLines entries received are among them.
C23_LogRetention ==
  \A id \in DOMAIN instances :
    instances[id].type = "log-stream" =>
      LET w == instances[id]
      IN  /\ Len(w.logLines) <= 2 * maxLines
          /\ IsSuffix(w.logLines, Entries(w))
          /\ IsSuffix(Last(Entries(w), maxLines), w.logLines)

\* More than 2 * maxLines entries were received and the widget has trimmed
\* its lines.
C23_Witness ==
  \E id \in DOMAIN instances :
    /\ instances[id].type = "log-stream"
    /\ Len(Entries(instances[id])) > 2 * maxLines
    /\ Len(instances[id].logLines) < Len(Entries(instances[id]))

\* C30: every non-empty log message received while a log widget is mounted
\* appends exactly one entry to the lines of that widget, after the entries
\* that arrived before it: the value parsed from the text, or the text
\* itself when it is not JSON; and a log message changes none of the
\* telemetry, balance and system caches.
C30_LogMessageAppendsOne ==
  [][/\ (handler'.stream = "log" => cacheVars' = cacheVars)
     /\ (handler.pc = "notify" /\ handler.stream = "log") =>
          LET id == widgetSubscribers["log"][handler.cursor + 1]
              old == instances[id].logLines
              new == instances'[id].logLines
          IN  /\ new # <<>>
              /\ new[Len(new)] = handler.data
              /\ new \in {Append(old, handler.data),
                          Last(Append(old, handler.data), maxLines)}]_vars

(***************************************************************************)
(* Requests for widgets: from the widget menu, which saves the config, or  *)
(* from the saved configuration, which does not; ids may recur.            *)
(***************************************************************************)
\* The configs requested: a widget of each stream that mounts.
RequestConfigs == {cfg \in Configs : cfg.type \in {"system-cpu", "log-stream", "balance-assets"}}

NextRequests ==
  \/ \E cfg \in RequestConfigs : \E skipStorage \in BOOLEAN :
       CreateAndPlaceWidget(cfg, skipStorage)
  \/ \E id \in WidgetIds : RemoveWidget(id)
  \/ \E id \in WidgetIds : StorageRemoves(id)

SpecRequests == InitWidgets /\ [][NextRequests]_vars

\* The promise of import() in removeWidget is resolved (the module is
\* loaded), so its callback runs once the event loop is free.
SpecRemovals ==
  SpecRequests /\ \A id \in WidgetIds : WF_vars(StorageRemoves(id))

\* The saved configuration holds a config of the id.
Persisted(st, id) == \E i \in 1..Len(st.widgets) : st.widgets[i].id = id

\* C35: after removeWidget(id) for a mounted widget, the widget is no longer
\* in the canvas registry, its callback is no longer subscribed, and the
\* persisted configuration eventually contains no entry with that id;
\* removeWidget for an id that is not mounted changes neither the registry,
\* the subscriber sets nor the persisted configuration.
C35_RemovedEverywhere ==
  /\ [][\A id \in WidgetIds :
          RemoveWidget(id) =>
            IF id \in DOMAIN widgets
              THEN /\ id \notin DOMAIN widgets'
                   /\ \A s \in Streams : ~Has(widgetSubscribers'[s], id)
                   /\ id \in storage'.removing
              ELSE UNCHANGED <<widgets, widgetSubscribers, storage>>]_vars
  /\ \A id \in WidgetIds :
        (id \in storage.removing) ~> ~Persisted(storage, id)

\* A widget saved twice was removed and the storage has followed, while
\* the other widget stays mounted, subscribed and saved.
C35_Witness ==
  /\ \E d \in destroyed : d.id = "w1"
  /\ "w1" \notin DOMAIN widgets
  /\ storage.removing = {}
  /\ ~Persisted(storage, "w1")
  /\ "w2" \in DOMAIN widgets
  /\ Persisted(storage, "w2")
  /\ \E s \in Streams : Has(widgetSubscribers[s], "w2")

\* C24: a request for a widget whose id the canvas registry already holds
\* changes nothing: the registry, the subscriber Sets and the persisted
\* configuration are after it what they were before.
C24_DuplicateIdIsNoOp ==
  [][\A cfg \in RequestConfigs : \A skipStorage \in BOOLEAN :
       (cfg.id \in DOMAIN widgets /\ CreateAndPlaceWidget(cfg, skipStorage))
       => UNCHANGED <<widgets, instances, widgetSubscribers, storage>>]_vars

(***************************************************************************)
(* StorageManager: the configuration is read from the storage record when  *)
(* the manager is constructed and written back by every operation.         *)
(***************************************************************************)
\* A config object: { version, widgets }, either of which may be missing.
Config(version, ws) == [t |-> "obj", version |-> version, widgets |-> ws]

\* { version: '1.0', widgets: [] }
DefaultConfig == Config(JStr("1.0"), JArray(<<>>))

\* A widget config as it is saved.
Saved(id) == [t |-> "obj", id |-> id, x |-> 0, y |-> 0]

\* The text of a record: the value JSON.parse builds from it, or none.
Text(v) == [kind |-> "text", json |-> TRUE, value |-> v]

\* What localStorage.getItem may return: null for a missing record, the
\* empty string, a text that is not JSON, JSON that is no config (null, a
\* number, an array, {}, a widgets that is no array or holds a null), and
\* configs as saveConfig writes them.
StoredTexts ==
  {[kind |-> "missing"], [kind |-> "empty"], [kind |-> "text", json |-> FALSE]}
    \cup {Text(v) : v \in {JNull, JNum(5), JArray(<<>>),
                           Config(JUndef, JUndef),
                           Config(JStr("1.0"), JNum(5)),
                           Config(JStr("1.0"), JArray(<<JNull>>)),
                           DefaultConfig,
                           Config(JStr("1.0"), JArray(<<Saved("w1")>>))}}

\* loadConfig: the parsed record if there is a non-empty text and it
\* parses, the default otherwise.
LoadConfig(text) ==
  IF text.kind = "text" /\ text.json THEN text.value ELSE DefaultConfig

\* { ...this.config }: the own properties of an object; null, a number and
\* an empty array have none.
SpreadConfig(c) == IF c.t = "obj" THEN c ELSE Config(JUndef, JUndef)

\* The first index of items that Test holds of, Len + 1 if there is none.
FirstIndex(items, Test(_)) ==
  IF \E i \in 1..Len(items) : Test(items[i])
    THEN CHOOSE i \in 1..Len(items) : Test(items[i]) /\ \A j \in 1..(i - 1) : ~Test(items[j])
    ELSE Len(items) + 1

IsNullItem(w) == w.t = "null"

\* StorageManager.addWidget: push on config.widgets, a TypeError unless
\* that is an array; then saveConfig.
SmAddWidget(c, widgetConfig) ==
  LET config == SpreadConfig(c)
  IN  IF config.widgets.t # "array"
        THEN [threw |-> TRUE, saved |-> FALSE, config |-> c]
        ELSE [threw |-> FALSE, saved |-> TRUE,
              config |-> [config EXCEPT !.widgets = JArray(Append(@.items, widgetConfig))]]

\* StorageManager.updateWidget: findIndex(w => w.id === widgetId) reads the
\* id of each element up to the first match.
SmUpdateWidget(c, widgetId, x, y) ==
  LET config == SpreadConfig(c)
  IN  IF config.widgets.t # "array"
        THEN [threw |-> TRUE, saved |-> FALSE, config |-> c]
        ELSE LET items == config.widgets.items
                 HasId(w) == w.t = "obj" /\ w.id = widgetId
                 widgetIndex == FirstIndex(items, HasId)
             IN  IF FirstIndex(items, IsNullItem) < widgetIndex
                   THEN [threw |-> TRUE, saved |-> FALSE, config |-> c]
                 ELSE IF widgetIndex > Len(items)
                   THEN [threw |-> FALSE, saved |-> FALSE, config |-> c]
                 ELSE [threw |-> FALSE, saved |-> TRUE,
                       config |-> [config EXCEPT !.widgets =
                                     JArray([items EXCEPT ![widgetIndex] =
                                               [@ EXCEPT !.x = x, !.y = y]])]]

\* StorageManager.removeWidget: filter(w => w.id !== widgetId) reads the id
\* of every element.
SmRemoveWidget(c, widgetId) ==
  LET config == SpreadConfig(c)
  IN  IF config.widgets.t # "array"
        THEN [threw |-> TRUE, saved |-> FALSE, config |-> c]
        ELSE LET items == config.widgets.items
                 Other(w) == w.id # widgetId
             IN  IF FirstIndex(items, IsNullItem) <= Len(items)
                   THEN [threw |-> TRUE, saved |-> FALSE, config |-> c]
                   ELSE [threw |-> FALSE, saved |-> TRUE,
                         config |-> [config EXCEPT !.widgets = JArray(SelectSeq(items, Other))]]

\* new StorageManager(): this.config = this.loadConfig().
Constructed(text) ==
  [op |-> "storage", from |-> text, loaded |-> LoadConfig(text),
   config |-> LoadConfig(text), text |-> text, threw |-> FALSE]

\* The manager after an operation: saveConfig writes the record and keeps
\* the config; an operation that threw has done neither.
AfterOperation(sm, r) ==
  [sm EXCEPT !.config = r.config,
             !.text = IF r.saved THEN Text(r.config) ELSE @,
             !.threw = @ \/ r.threw]

\* The page loads: the module constructs its StorageManager.
NewStorageManager(text) ==
  /\ probe.op = "none"
  /\ probe' = Constructed(text)
  /\ UNCHANGED <<canvas, container, widgets, dragDrop, touches, storage, layout, menu, creations, dataVars, widgetVars>>

\* The page is loaded again with the record the manager left.
ReloadPage ==
  /\ probe.op = "storage"
  /\ probe' = Constructed(probe.text)
  /\ UNCHANGED <<canvas, container, widgets, dragDrop, touches, storage, layout, menu, creations, dataVars, widgetVars>>

\* The widgets list of a config is not an array, or has room for more.
HasRoom(c) == c.t = "obj" /\ c.widgets.t = "array" => Len(c.widgets.items) < MaxStored

CallAddWidget(id) ==
  /\ probe.op = "storage"
  /\ HasRoom(probe.config)
  /\ probe' = AfterOperation(probe, SmAddWidget(probe.config, Saved(id)))
  /\ UNCHANGED <<canvas, container, widgets, dragDrop, touches, storage, layout, menu, creations, dataVars, widgetVars>>

CallUpdateWidget(id, x, y) ==
  /\ probe.op = "storage"
  /\ probe' = AfterOperation(probe, SmUpdateWidget(probe.config, id, x, y))
  /\ UNCHANGED <<canvas, container, widgets, dragDrop, touches, storage, layout, menu, creations, dataVars, widgetVars>>

CallRemoveWidget(id) ==
  /\ probe.op = "storage"
  /\ probe' = AfterOperation(probe, SmRemoveWidget(probe.config, id))
  /\ UNCHANGED <<canvas, container, widgets, dragDrop, touches, storage, layout, menu, creations, dataVars, widgetVars>>

NextStorage ==
  \/ \E text \in StoredTexts : NewStorageManager(text)
  \/ ReloadPage
  \/ \E id \in WidgetIds : CallAddWidget(id)
  \/ \E id \in WidgetIds : \E x, y \in 0..1 : CallUpdateWidget(id, x, y)
  \/ \E id \in WidgetIds : CallRemoveWidget(id)

SpecStorage == InitGeometry /\ [][NextStorage]_vars

\* The record holds a config: an object whose widgets is an array of
\* widget configs.
HoldsConfig(text) ==
  /\ text.kind = "text"
  /\ text.json
  /\ text.value.t = "obj"
  /\ text.value.widgets.t = "array"
  /\ \A i \in 1..Len(text.value.widgets.items) : text.value.widgets.items[i].t = "obj"

\* C25: when the storage record is missing or holds anything but a config,
\* loading yields the default configuration { version, widgets: [] }, and
\* the addWidget, updateWidget and removeWidget that follow work on a
\* widgets list: none of them throws.
C25_CorruptStorageYieldsDefault ==
  (probe.op = "storage" /\ ~HoldsConfig(probe.from))
    => (probe.loaded = DefaultConfig /\ ~probe.threw)

(***************************************************************************)
(* The widgets of a single key: each is configured with a key its stream   *)
(* has not delivered yet, and the stream delivers that key and another,    *)
(* with changing values.                                                   *)
(***************************************************************************)
SingleKinds == {"telemetry-metric", "balance-single", "system-metric"}

\* The key each widget is configured with.
SingleKey(kind) ==
  CASE kind = "telemetry-metric" -> "mem_used|{}"
    [] kind = "balance-single" -> "ETH"
    [] kind = "system-metric" -> "memory_used"

SingleConfigs ==
  {[id |-> id, type |-> kind, key |-> SingleKey(kind), place |-> <<0, 0, 4, 3>>] :
     id \in WidgetIds, kind \in SingleKinds}

\* Messages of one entry: of the configured key or of another.
SingleMsgs(stream) ==
  CASE stream = "telemetry" ->
         {[json |-> TRUE, form |-> "array", metrics |-> <<TItem(m, "gauge", v)>>] :
            m \in {<<"cpu_temp", "omitted">>, <<"mem_used", "omitted">>}, v \in 1..MaxValue}
    [] stream = "balance" ->
         {[json |-> TRUE, form |-> "object",
           balances |-> JArray(<<[t |-> "obj", asset |-> a, total_balance |-> v]>>),
           open_orders |-> JArray(<<>>)] : a \in {"BTC", "ETH"}, v \in 1..MaxValue}
    [] stream = "system" ->
         {[json |-> TRUE, form |-> "object", fields |-> [k \in {key} |-> JNum(v)]] :
            key \in {"cpu_usage", "memory_used"}, v \in 1..MaxValue}

NextSingle ==
  \/ \E cfg \in SingleConfigs : CreateAndPlaceWidget(cfg, TRUE)
  \/ \E s \in CachedStreams : \E m \in SingleMsgs(s) : OnMessage(s, m)
  \/ NotifyWidget
  \/ HandlerReturns

SpecSingle == InitWidgets /\ [][NextSingle]_vars

\* C28: once a publish on its channel is over, a widget that shows an
\* entry shows the entry the cache now holds under that key, be it the
\* configured key or a fallback: never an older value.
C28_ShowsCurrentEntry ==
  (handler.pc = "done" /\ handler.stream \in CachedStreams) =>
    \A id \in DOMAIN instances :
      LET w == instances[id]
      IN  (StreamOf(w.type) = handler.stream /\ w.content.shows = "entry")
            => /\ w.content.key \in DOMAIN CacheOf(handler.stream)
               /\ w.content.entry = CacheOf(handler.stream)[w.content.key]

\* C29: a widget of a single key that shows a fallback entry, its
\* configured key being absent from the cache, keeps showing the key of
\* that entry in every later render, also once the configured key is in
\* the cache.
C29_FallbackKeyIsKept ==
  [][\A id \in DOMAIN instances \cap DOMAIN instances' :
       LET w == instances[id]
           after == instances'[id]
       IN  (w.type \in SingleKinds /\ w.content.shows = "entry"
              /\ w.content.key # SingleKey(w.type))
             => (after.content.shows = "entry" /\ after.content.key = w.content.key)]_vars


(***************************************************************************)
(* Drags one after another: widgets are placed from the menu, which saves  *)
(* them, then dragged with the mouse or a finger, clicked, and the flag    *)
(* timers fire.                                                            *)
(***************************************************************************)
NextDrags ==
  \/ \E id \in WidgetIds, p \in Placements : AddWidget(id, p, TRUE)
  \/ \E id \in WidgetIds, pointer \in Pointers : MouseDown(id, pointer)
  \/ \E pointer \in Pointers : MouseMove(pointer)
  \/ MouseUp
  \/ \E target \in WidgetIds \cup {"canvas"}, pointer \in Pointers :
       TouchStart(target, pointer, 0)
  \/ \E pointer \in Pointers : TouchMove(pointer, 0)
  \/ \E i \in 1..MaxTouches : TouchEnd(i)
  \/ \E id \in WidgetIds : Click(id)
  \/ ClickCanvas
  \/ FlagTimerFires

SpecDrags == InitGestures /\ [][NextDrags]_vars

\* A step in which an endDrag call went past its first line: a release.
Release == dragDrop'.ended > dragDrop.ended

\* The saved configs of widget id all hold position (x, y), and there is one.
PersistedAt(st, id, x, y) ==
  /\ \E i \in 1..Len(st.widgets) : st.widgets[i].id = id
  /\ \A i \in 1..Len(st.widgets) :
       st.widgets[i].id = id => st.widgets[i].x = x /\ st.widgets[i].y = y

\* C31: when a drag is released, the persisted position of the dragged
\* widget becomes its in-memory grid position at release and the canvas base
\* dimensions are recomputed, both exactly once per drag, however many drags
\* were made before (one endDrag call does the work, whatever the number of
\* endDrag listeners the release reaches).
C31_ReleasePersistsOnce ==
  [][(DragActive(dragDrop) /\ (MouseUp \/ \E i \in 1..MaxTouches : TouchEnd(i)))
       => LET id == dragDrop.draggedWidget
          IN  /\ dragDrop'.ended = 1
              /\ widgets'[id].x = dragDrop.held.x /\ widgets'[id].y = dragDrop.held.y
              /\ PersistedAt(storage', id, widgets'[id].x, widgets'[id].y)
              /\ BaseFitsContent']_vars

\* C31 witness: a second drag was released, after the widget had moved to
\* cell (10, 10) from the cell (0, 0) it was placed and saved at.
C31_Witness ==
  /\ dragDrop.listeners >= 2 /\ dragDrop.ended = 1 /\ ~DragActive(dragDrop)
  /\ \E id \in DOMAIN widgets :
       /\ widgets[id].x = 10 /\ widgets[id].y = 10
       /\ PersistedAt(storage, id, 10, 10)
       /\ \E i \in DOMAIN widgets : i # id /\ widgets[i].x = 0
  /\ BaseFitsContent

\* C32: the click that immediately follows a drag release never selects the
\* widget, also when the timer of an earlier release is still pending; once
\* every flag timer has fired the flag is down, and a click on a widget
\* selects it exactly when the flag is down.
C32_ClickAfterReleaseSuppressed ==
  /\ [](dragDrop.flagTimers = 0 => ~dragDrop.justFinishedDrag)
  /\ [][Release
          => /\ dragDrop'.justFinishedDrag
             /\ \A id \in DOMAIN widgets' :
                  SelectionListener(canvas', widgets', dragDrop', id) = canvas']_vars
  /\ [][\A id \in WidgetIds :
          Click(id) => canvas'.selected = IF dragDrop.justFinishedDrag
                                            THEN canvas.selected ELSE id]_vars

\* C32 witness: two releases less than 100 ms apart, the timers of both have
\* fired, and a click has selected the widget that was dragged.
C32_Witness ==
  /\ dragDrop.listeners >= 2 /\ dragDrop.ended = 1 /\ ~DragActive(dragDrop)
  /\ dragDrop.flagTimers = 0 /\ ~dragDrop.justFinishedDrag
  /\ canvas.selected \in DOMAIN widgets
  /\ widgets[canvas.selected].x = 10
  /\ PersistedAt(storage, canvas.selected, 10, widgets[canvas.selected].y)

\* C40: when a drag ends, the move and release listeners startDrag put on
\* document are removed: with no drag under way none is left, however many
\* drags were completed.
C40_ListenersRemovedAtEnd ==
  /\ [][Release => dragDrop'.listeners < dragDrop.listeners]_vars
  /\ [](~DragActive(dragDrop) => dragDrop.listeners = 0)
(***************************************************************************)
(* Histograms on the telemetry stream.                                     *)
(***************************************************************************)
\* The items of the messages: a gauge, histograms with buckets and a value,
\* histograms that carry the marker and no value.
HistogramItems ==
  {TItem(<<"cpu_temp", "omitted">>, "gauge", v) : v \in 1..MaxValue}
  \cup {HItem(m, "buckets", JNum(v)) : m \in TMetrics, v \in 1..MaxValue}
  \cup {HItem(m, NotSerialized, JUndef) : m \in TMetrics}

HistogramMsgs ==
  {[json |-> TRUE, form |-> f, metrics |-> s] :
     f \in {"array", "wrapper"}, s \in SeqUpTo(HistogramItems, MaxItems) \ {<<>>}}

InitHistogram ==
  /\ InitCache
  /\ connections["telemetry"] = "open"

NextHistogram ==
  \/ \E m \in HistogramMsgs : OnMessage("telemetry", m)
  \/ HandlerReturns

SpecHistogram == InitHistogram /\ [][NextHistogram]_vars

\* The item carries the marker.
CarriesMarker(item) ==
  item.t = "obj" /\ item.type = "histogram" /\ item.data = NotSerialized

\* The keys of the items of msg that carry the marker, when no item of msg
\* without it has the same key.
MarkedKeys(msg) ==
  {TelemetryKey(msg.metrics[i]) :
     i \in {j \in 1..Len(msg.metrics) :
              /\ CarriesMarker(msg.metrics[j])
              /\ \A k \in 1..Len(msg.metrics) :
                   TelemetryKey(msg.metrics[k]) = TelemetryKey(msg.metrics[j])
                     => CarriesMarker(msg.metrics[k])}}

\* C34: a telemetry histogram item that carries the 'not serialized' marker
\* is skipped at ingest: it creates no cache entry and leaves an existing
\* entry for its key unchanged.
C34_MarkedHistogramSkipped ==
  [][\A m \in HistogramMsgs :
       OnMessage("telemetry", m)
         => \A k \in MarkedKeys(m) :
              IF k \in DOMAIN telemetryData
                THEN k \in DOMAIN telemetryData' /\ telemetryData'[k] = telemetryData[k]
                ELSE k \notin DOMAIN telemetryData']_vars
(***************************************************************************)
(* Grid positions: widgets come from the menu and from a saved             *)
(* configuration, are dragged with the mouse and with one finger, and the  *)
(* window is resized.                                                      *)
(***************************************************************************)
\* The places a saved configuration holds, edited by hand among them.
SavedPlacements == {<<-3, 7, 4, 3>>, <<5, -1, 4, 3>>}

NextPositions ==
  \/ \E id \in WidgetIds, p \in SavedPlacements : AddWidget(id, p, FALSE)
  \/ \E id \in WidgetIds : AddWidget(id, <<10, 10, 4, 3>>, TRUE)
  \/ \E v \in Viewports : Resize(v)
  \/ \E id \in WidgetIds, pointer \in Pointers :
       Unhurried /\ touches = <<>> /\ MouseDown(id, pointer)
  \/ \E pointer \in Pointers : MouseMove(pointer)
  \/ MouseUp
  \/ \E id \in WidgetIds, pointer \in Pointers :
       Unhurried /\ touches = <<>> /\ TouchStart(id, pointer, 0)
  \/ \E pointer \in Pointers : TouchMove(pointer, 0)
  \/ TouchEnd(1)
  \/ FlagTimerFires

SpecPositions == InitCanvas /\ [][NextPositions]_vars

Show(id) ==
  /\ id \in DOMAIN widgets
  /\ menu' = [menu EXCEPT !.currentWidget = id, !.isVisible = TRUE]
  /\ UNCHANGED <<canvas, container, widgets, dragDrop, touches, storage, layout, probe,
                 creations, dataVars, widgetVars>>

\* hide()
Hide(m) == [m EXCEPT !.currentWidget = "none", !.isVisible = FALSE]

\* A click outside the menu, or Escape while it shows.
Dismiss ==
  /\ menu.isVisible
  /\ menu' = Hide(menu)
  /\ UNCHANGED <<canvas, container, widgets, dragDrop, touches, storage, layout, probe,
                 creations, dataVars, widgetVars>>

\* handleAction('duplicate'): duplicateWidget() starts the import and
\* returns, then hide() runs.
HandleActionDuplicate ==
  /\ menu.currentWidget # "none"
  /\ Len(menu.duplicating) < MaxPending
  /\ menu' = Hide([menu EXCEPT !.duplicating = Append(@, menu.currentWidget)])
  /\ UNCHANGED <<canvas, container, widgets, dragDrop, touches, storage, layout, probe,
                 creations, dataVars, widgetVars>>

\* The ids duplicateWidget makes of the type and Date.now().
CopyIds == {"copy"}

\* newConfig of duplicateWidget: the widget's inner config (which holds no
\* type and no size) with an id of its own and the position moved by one.
NewConfig(ws, id, fresh) ==
  [id |-> fresh, type |-> "undefined", key |-> "none",
   place |-> <<ws[id].x + 1, ws[id].y + 1, 4, 3>>]

\* The callback of import(...).then in duplicateWidget: it reads
\* this.currentWidget, which is null unless the menu was shown again; then
\* ContextMenu.createWidgetFromConfig (window.createWidgetFromConfig is
\* never set) switches on the type of the new config.
DuplicateResolves ==
  /\ menu.duplicating # <<>>
  /\ EventLoopFree
  /\ LET rest == [menu EXCEPT !.duplicating = Tail(@)]
         cw == menu.currentWidget
     IN  IF cw = "none" \/ cw \notin DOMAIN widgets
           THEN /\ menu' = [rest EXCEPT !.failed = @ \cup {"TypeError"}]
                /\ UNCHANGED <<canvas, container, widgets, dragDrop, touches, storage, layout,
                               probe, creations, dataVars, widgetVars>>
           ELSE \E fresh \in CopyIds :
                  LET newConfig == NewConfig(widgets, cw, fresh)
                  IN  IF newConfig.type \in Kinds
                        THEN /\ Placed(newConfig, TRUE)
                             /\ menu' = rest
                             /\ creations' = creations
                        ELSE /\ menu' = [rest EXCEPT !.failed = @ \cup {"Unknown widget type"}]
                             /\ UNCHANGED <<canvas, container, widgets, dragDrop, touches,
                                            storage, layout, probe, creations, dataVars,
                                            widgetVars>>

NextMenu ==
  \/ \E cfg \in RequestConfigs : CreateAndPlaceWidget(cfg, FALSE)
  \/ \E id \in WidgetIds : Show(id)
  \/ Dismiss
  \/ HandleActionDuplicate
  \/ DuplicateResolves

SpecMenu == InitWidgets /\ [][NextMenu]_vars

\* C37: choosing Duplicate on a mounted widget mounts one new widget of the
\* same type with a fresh id at the original's grid position offset by
\* (+1, +1), and leaves the original widget unchanged.
C37_DuplicateMountsCopy ==
  [][DuplicateResolves =>
       LET original == Head(menu.duplicating)
       IN  original \in DOMAIN widgets =>
             /\ \E id \in DOMAIN widgets' \ DOMAIN widgets :
                  /\ DOMAIN widgets' = DOMAIN widgets \cup {id}
                  /\ instances'[id].type = instances[original].type
                  /\ widgets'[id].x = widgets[original].x + 1
                  /\ widgets'[id].y = widgets[original].y + 1
             /\ widgets'[original] = widgets[original]
             /\ instances'[original] = instances[original]]_vars
(***************************************************************************)
(* The async loops that create widgets: loadSavedConfiguration at page     *)
(* load and placeMetricWidgets from the widget menu, both awaiting each    *)
(* createAndPlaceWidget in turn, and the clear-all button between awaits.  *)
(***************************************************************************)
\* The saved configurations a page loads with.
SavedLists ==
  {<<>>, <<[id |-> "w1", x |-> 0, y |-> 0]>>,
   <<[id |-> "w1", x |-> 0, y |-> 0], [id |-> "w2", x |-> 10, y |-> 10]>>}

\* The widgets one click in the widget menu asks for, laid out.
Batches ==
  {<<Request("w3", "system-cpu", <<0, 0, 4, 3>>)>>,
   <<Request("w3", "system-cpu", <<0, 0, 4, 3>>), Request("w4", "log-stream", <<4, 0, 4, 3>>)>>}

\* placeMetricWidgets up to the first await of its loop.
PlaceMetricWidgets(batch) ==
  /\ \A i \in 1..Len(creations) : creations[i].skipStorage
  /\ creations' = Append(creations, [configs |-> batch, skipStorage |-> FALSE, pc |-> "import"])
  /\ UNCHANGED <<canvas, container, widgets, dragDrop, touches, storage, layout, probe,
                 menu, dataVars, widgetVars>>

\* The loops once loop i is done with its first config.
Advanced(cr, i) ==
  IF Len(cr[i].configs) > 1
    THEN [cr EXCEPT ![i].configs = Tail(@), ![i].pc = "import"]
    ELSE [j \in 1..(Len(cr) - 1) |-> cr[IF j < i THEN j ELSE j + 1]]

\* Loop i after new WidgetClass and canvas.addWidget: it awaits the import
\* of the storage unless it skips the storage or the creation threw.
Mounted(cr, i, threw) ==
  IF cr[i].skipStorage \/ threw THEN Advanced(cr, i) ELSE [cr EXCEPT ![i].pc = "save"]

\* createAndPlaceWidget of the first config of loop i goes on after an
\* await: the imports are there, the widget is made and added to the
\* canvas; or the storage module is there and the config is saved.
CreationStep(i) ==
  /\ i \in 1..Len(creations)
  /\ LET loop == creations[i]
         cfg == Head(loop.configs).cfg
     IN  IF loop.pc = "import"
           THEN /\ Placed(cfg, TRUE)
                /\ creations' = Mounted(creations, i,
                                        cfg.id \notin DOMAIN widgets
                                          /\ CreateElement(NewWidget(cfg)).threw)
                /\ menu' = menu
           ELSE /\ EventLoopFree
                /\ Len(storage.widgets) < MaxStored
                /\ storage' = StorageAddWidget(storage, cfg.id, Max(0, cfg.place[1]),
                                               Max(0, cfg.place[2]))
                /\ creations' = Advanced(creations, i)
                /\ UNCHANGED <<canvas, container, widgets, dragDrop, touches, layout, probe,
                               menu, dataVars, widgetVars>>

InitCreations ==
  /\ DataAtRest
  /\ \E saved \in SavedLists : PageLoaded(400, 300, saved)

NextCreations ==
  \/ \E batch \in Batches : PlaceMetricWidgets(batch)
  \/ \E i \in DOMAIN creations : CreationStep(i)
  \/ ClearAll

SpecCreations == InitCreations /\ [][NextCreations]_vars

\* C38: after the user confirms Clear All, once every asynchronous widget
\* creation that was in flight (startup load of the saved configuration,
\* batch add from the widget menu) has settled, the canvas registry is empty
\* and the persisted configuration holds no widgets: no widget requested
\* before the clear is mounted or persisted after it.
C38_ClearAllWins ==
  [][\A i \in 1..Len(creations) :
       (Head(creations[i].configs).stale /\ CreationStep(i))
         => /\ DOMAIN widgets' \subseteq DOMAIN widgets
            /\ Len(storage'.widgets) <= Len(storage.widgets)]_vars
(***************************************************************************)
(* The sockets and the reconnection timers of a channel.                   *)
(***************************************************************************)
\* The socket of the stream has not closed.
Live(stream) == connections[stream] \in {"connecting", "open"}

\* C39: for each channel, in every reachable state the number of open or
\* connecting sockets plus the number of pending reconnect timers is at most
\* one, given that a socket reports its close once: a connectStream call
\* never finds a socket of its channel live, and reconnect attempts never
\* pile up.
C39_OneSocketOrTimer ==
  /\ [](\A s \in Streams :
          (IF Live(s) THEN 1 ELSE 0) + Cardinality(timers[s]) <= 1)
  /\ [][\A s \in Streams : TimerFires(s) => ~Live(s)]_vars

\* A stream is open again after a close and after a failed creation, no
\* timer of it is left, and another stream waits for its reconnection.
C39_Witness ==
  \E s, t \in Streams :
    /\ s # t
    /\ connections[s] = "open"
    /\ timers[s] = {}
    /\ {"closed", "failed"} \subseteq reconnects[s].retried
    /\ connections[t] = "closed"
    /\ Cardinality(timers[t]) = 1
====
